---------------------------- MODULE Spec2Model ----------------------------
(***************************************************************************)
(* Model of the safety screen of the Meta-Prompt Engineering Framework:    *)
(* SafetyChecker (src/src/safety/safety_checker.py), its configuration     *)
(* (src/src/core/config.py) and the processing path that consults it       *)
(* (src/main.py, src/src/core/engine.py).                                  *)
(*                                                                         *)
(* Texts are sequences of one-character strings, so that lower-casing,     *)
(* substring search and the regular expressions' word boundaries are       *)
(* computed, not assumed.  Scores are IEEE-754 binary64 values, computed   *)
(* with round-to-nearest-even as Python's float does: 0.1 * 3 is not 0.3.  *)
(***************************************************************************)
EXTENDS Integers, Sequences, FiniteSets, TLC

(***************************************************************************)
(* Natural numbers of any size: little-endian sequences of limbs in base   *)
(* 2^15 without leading zero limbs; <<>> is zero.                          *)
(***************************************************************************)
Base == 2 ^ 15

LimbBits == CHOOSE k \in 1..30 : 2 ^ k = Base

RECURSIVE BNorm(_)
BNorm(x) ==
    IF x = <<>> THEN <<>>
    ELSE IF x[Len(x)] = 0 THEN BNorm(SubSeq(x, 1, Len(x) - 1))
    ELSE x

RECURSIVE BFromInt(_)
BFromInt(n) ==
    IF n = 0 THEN <<>> ELSE <<n % Base>> \o BFromInt(n \div Base)

Limb(x, i) == IF i <= Len(x) THEN x[i] ELSE 0

\* a local variable: Op of the value v, which is computed once and bound to
\* the parameter of Op
With(v, Op(_)) == Op(v)

MaxOf(a, b) == IF a >= b THEN a ELSE b

MinOf(a, b) == IF a <= b THEN a ELSE b

RECURSIVE BAddFrom(_, _, _, _)
BAddFrom(x, y, i, carry) ==
    IF i > MaxOf(Len(x), Len(y))
    THEN (IF carry = 0 THEN <<>> ELSE <<carry>>)
    ELSE LET s == Limb(x, i) + Limb(y, i) + carry
         IN  <<s % Base>> \o BAddFrom(x, y, i + 1, s \div Base)

BAdd(x, y) == BAddFrom(x, y, 1, 0)

\* x - y, for x >= y
RECURSIVE BSubFrom(_, _, _, _)
BSubFrom(x, y, i, borrow) ==
    IF i > Len(x) THEN <<>>
    ELSE LET d == Limb(x, i) - Limb(y, i) - borrow
         IN  IF d < 0
             THEN <<d + Base>> \o BSubFrom(x, y, i + 1, 1)
             ELSE <<d>> \o BSubFrom(x, y, i + 1, 0)

BSub(x, y) == BNorm(BSubFrom(x, y, 1, 0))

\* -1, 0 or 1 as x < y, x = y or x > y
RECURSIVE BCmpFrom(_, _, _)
BCmpFrom(x, y, i) ==
    IF i = 0 THEN 0
    ELSE IF x[i] < y[i] THEN -1
    ELSE IF x[i] > y[i] THEN 1
    ELSE BCmpFrom(x, y, i - 1)

BCmp(x, y) ==
    IF Len(x) < Len(y) THEN -1
    ELSE IF Len(x) > Len(y) THEN 1
    ELSE BCmpFrom(x, y, Len(x))

\* x * d for one limb d, shifted up by k limbs
RECURSIVE BMulLimbFrom(_, _, _, _)
BMulLimbFrom(x, d, i, carry) ==
    IF i > Len(x)
    THEN (IF carry = 0 THEN <<>> ELSE <<carry>>)
    ELSE LET p == x[i] * d + carry
         IN  <<p % Base>> \o BMulLimbFrom(x, d, i + 1, p \div Base)

Zeros(k) == [j \in 1..k |-> 0]

RECURSIVE BMulFrom(_, _, _)
BMulFrom(x, y, j) ==
    IF j > Len(y) THEN <<>>
    ELSE BAdd(BNorm(Zeros(j - 1) \o BMulLimbFrom(x, y[j], 1, 0)),
              BMulFrom(x, y, j + 1))

BMul(x, y) == IF x = <<>> \/ y = <<>> THEN <<>> ELSE BMulFrom(x, y, 1)

RECURSIVE IntBitLen(_)
IntBitLen(n) == IF n = 0 THEN 0 ELSE 1 + IntBitLen(n \div 2)

BBitLen(x) ==
    IF x = <<>> THEN 0
    ELSE (Len(x) - 1) * LimbBits + IntBitLen(x[Len(x)])

\* x * 2^k
BShl(x, k) ==
    IF x = <<>> THEN <<>>
    ELSE BNorm(Zeros(k \div LimbBits)
               \o BMulLimbFrom(x, 2 ^ (k % LimbBits), 1, 0))

\* x mod 2^k
BLow(x, k) ==
    LET q == k \div LimbBits
        r == k % LimbBits
    IN  BNorm([i \in 1..MinOf(Len(x), q + 1) |->
                  IF i <= q THEN x[i] ELSE x[i] % (2 ^ r)])

\* x div 2^k
BShr(x, k) ==
    LET q == k \div LimbBits
        r == k % LimbBits
    IN  IF Len(x) <= q THEN <<>>
        ELSE BNorm([i \in 1..(Len(x) - q) |->
                      (x[i + q] \div (2 ^ r))
                      + (Limb(x, i + q + 1) % (2 ^ r)) * (2 ^ (LimbBits - r))])

BIsOdd(x) == x # <<>> /\ x[1] % 2 = 1

(***************************************************************************)
(* binary64 values: [neg, m, e] is (-1)^neg * m * 2^e with m of exactly    *)
(* MantBits bits, or m = <<>> for zero.  All values the checker can reach  *)
(* are normal numbers, so exponent range and subnormals are not modelled.  *)
(***************************************************************************)
MantBits == 53

FZero == [neg |-> FALSE, m |-> <<>>, e |-> 0]

\* the binary64 nearest to m * 2^e, ties to even
FRound(neg, m, e) ==
    With(BBitLen(m), LAMBDA n :
        IF n = 0 THEN FZero
        ELSE IF n <= MantBits
        THEN [neg |-> neg, m |-> BShl(m, MantBits - n), e |-> e - (MantBits - n)]
        ELSE LET k == n - MantBits
             IN  With(BShr(m, k), LAMBDA q :
                 With(BCmp(BLow(m, k), BShl(<<1>>, k - 1)), LAMBDA c :
                 With(IF c = 1 \/ (c = 0 /\ BIsOdd(q)) THEN BAdd(q, <<1>>) ELSE q,
                      LAMBDA q1 :
                     IF BBitLen(q1) > MantBits
                     THEN [neg |-> neg, m |-> BShr(q1, 1), e |-> e + k + 1]
                     ELSE [neg |-> neg, m |-> q1, e |-> e + k]))))

FromInt(n) == FRound(FALSE, BFromInt(n), 0)

FNeg(a) == IF a.m = <<>> THEN a ELSE [a EXCEPT !.neg = ~a.neg]

\* -1, 0, 1: comparison of the magnitudes
FCmpMag(a, b) ==
    IF a.m = <<>> /\ b.m = <<>> THEN 0
    ELSE IF a.m = <<>> THEN -1
    ELSE IF b.m = <<>> THEN 1
    ELSE IF a.e < b.e THEN -1
    ELSE IF a.e > b.e THEN 1
    ELSE BCmp(a.m, b.m)

FCmp(a, b) ==
    IF a.neg /\ ~b.neg THEN -1
    ELSE IF ~a.neg /\ b.neg THEN 1
    ELSE IF a.neg THEN 0 - FCmpMag(a, b)
    ELSE FCmpMag(a, b)

FLt(a, b) == FCmp(a, b) = -1

FLe(a, b) == FCmp(a, b) # 1

FGe(a, b) == FCmp(a, b) # -1

FGt(a, b) == FCmp(a, b) = 1

\* the operands are aligned at the lower exponent, then the magnitudes are
\* added or, for opposite signs, the lesser taken from the greater
FAdd(a, b) ==
    IF a.m = <<>> THEN b
    ELSE IF b.m = <<>> THEN a
    ELSE LET e == MinOf(a.e, b.e)
         IN  With(BShl(a.m, a.e - e), LAMBDA ma :
             With(BShl(b.m, b.e - e), LAMBDA mb :
             With(BCmp(ma, mb), LAMBDA c :
                 FRound(IF a.neg = b.neg \/ c = 1 THEN a.neg ELSE b.neg,
                        IF a.neg = b.neg THEN BAdd(ma, mb)
                        ELSE IF c = 1 THEN BSub(ma, mb)
                        ELSE BSub(mb, ma),
                        e))))

FSub(a, b) == FAdd(a, FNeg(b))

FMul(a, b) ==
    IF a.m = <<>> \/ b.m = <<>> THEN FZero
    ELSE FRound(a.neg # b.neg, BMul(a.m, b.m), a.e + b.e)

\* Python's min(a, b) and max(a, b) for two floats
FMin(a, b) == IF FLt(b, a) THEN b ELSE a

FMax(a, b) == IF FGt(b, a) THEN b ELSE a


(***************************************************************************)
(* Texts: a str is a sequence of one-character strings.                    *)
(***************************************************************************)
UpperLetters ==
    <<"A", "B", "C", "D", "E", "F", "G", "H", "I", "J", "K", "L", "M",
      "N", "O", "P", "Q", "R", "S", "T", "U", "V", "W", "X", "Y", "Z">>

LowerLetters ==
    <<"a", "b", "c", "d", "e", "f", "g", "h", "i", "j", "k", "l", "m",
      "n", "o", "p", "q", "r", "s", "t", "u", "v", "w", "x", "y", "z">>

Digits == <<"0", "1", "2", "3", "4", "5", "6", "7", "8", "9">>

Range(f) == {f[i] : i \in DOMAIN f}

\* str.lower(), one character
LowerMap ==
    [c \in Range(UpperLetters) |->
        LowerLetters[CHOOSE k \in 1..26 : UpperLetters[k] = c]]

\* str.lower()
Lower(s) ==
    [i \in 1..Len(s) |-> IF s[i] \in DOMAIN LowerMap THEN LowerMap[s[i]] ELSE s[i]]

\* the characters \w matches
WordChars ==
    Range(UpperLetters) \cup Range(LowerLetters) \cup Range(Digits) \cup {"_"}

IsWordAt(s, i) == i >= 1 /\ i <= Len(s) /\ s[i] \in WordChars

\* \b holds between s[i-1] and s[i]
Boundary(s, i) == IsWordAt(s, i - 1) # IsWordAt(s, i)

\* the literal w occurs in s at position i
LitAt(s, i, w) ==
    /\ i + Len(w) - 1 <= Len(s)
    /\ \A k \in 1..Len(w) : s[i + k - 1] = w[k]

\* "w in s" for two str
Contains(s, w) == \E i \in 1..(Len(s) - Len(w) + 1) : LitAt(s, i, w)

\* where the words of s (the maximal runs of word characters) start, what
\* they are, and where the lines of s end
Index(s) ==
    LET positions == [i \in 1..Len(s) |-> i]
        starts == SelectSeq(positions, LAMBDA i : IsWordAt(s, i) /\ ~IsWordAt(s, i - 1))
        stops  == SelectSeq(positions, LAMBDA i : IsWordAt(s, i) /\ ~IsWordAt(s, i + 1))
    IN  [starts   |-> starts,
         words    |-> [k \in 1..Len(starts) |-> SubSeq(s, starts[k], stops[k])],
         newlines |-> SelectSeq(positions, LAMBDA i : s[i] = "\n")]

\* re.compile of a group \b(a1|a2|..)\b: its alternatives in order, and
\* whether all of them are plain words, made of word characters only
CompileGroup(alts) ==
    [alts  |-> alts,
     plain |-> \A j \in 1..Len(alts) : \A k \in 1..Len(alts[j]) : alts[j][k] \in WordChars,
     words |-> Range(alts)]

\* re.compile of a pattern
Compile(pat) == [a |-> CompileGroup(pat.a), b |-> CompileGroup(pat.b)]

CompileTable(table) ==
    [c \in 1..Len(table) |->
        [name |-> table[c].name,
         patterns |-> [k \in 1..Len(table[c].patterns) |-> Compile(table[c].patterns[k])]]]

\* the alternatives of a group that match at the k-th word start and end at
\* a word boundary, in the order the regex engine tries them.  Every
\* alternative begins with a word character, so a group matches at a word
\* start only; a plain word matches there iff it is the whole word.
AltsAt(s, idx, k, group) ==
    IF group.plain
    THEN (IF idx.words[k] \in group.words THEN <<idx.words[k]>> ELSE <<>>)
    ELSE SelectSeq(group.alts,
                   LAMBDA w : /\ LitAt(s, idx.starts[k], w)
                              /\ Boundary(s, idx.starts[k] + Len(w)))

\* the end of the line that position p is on: the first "\n" at or after p
LineEnd(s, idx, p) ==
    LET after == SelectSeq(idx.newlines, LAMBDA i : i >= p)
    IN  IF after = <<>> THEN Len(s) + 1 ELSE after[1]

\* greedy ".*" from p followed by \b(b1|..)\b: "." stops at "\n", so the
\* second group matches at the last place of the line of p where it can;
\* <<start, alternative>>, or <<>>
LastSecond(s, idx, p, group) ==
    LET hi == LineEnd(s, idx, p)
    IN  With(SelectSeq([k \in 1..Len(idx.starts) |-> k],
                       LAMBDA k : /\ idx.starts[k] >= p
                                  /\ idx.starts[k] <= hi
                                  /\ AltsAt(s, idx, k, group) # <<>>),
             LAMBDA cands :
                 IF cands = <<>> THEN <<>>
                 ELSE LET last == cands[Len(cands)]
                      IN  <<idx.starts[last], AltsAt(s, idx, last, group)[1]>>)

\* the match of the pattern that starts at the k-th word: [groups, stop]
\* (stop is the position after the match), or <<>> when there is none.  The
\* first group's alternatives are tried in order, backtracking when the rest
\* fails.
RECURSIVE MatchFirst(_, _, _, _, _)
MatchFirst(s, idx, k, pat, cands) ==
    IF cands = <<>> THEN <<>>
    ELSE LET w == cands[1]
             p == idx.starts[k] + Len(w)
         IN  IF pat.b.alts = <<>>
             THEN [groups |-> <<w>>, stop |-> p]
             ELSE With(LastSecond(s, idx, p, pat.b), LAMBDA r :
                      IF r # <<>>
                      THEN [groups |-> <<w, r[2]>>, stop |-> r[1] + Len(r[2])]
                      ELSE MatchFirst(s, idx, k, pat, Tail(cands)))

MatchAt(s, idx, k, pat) == MatchFirst(s, idx, k, pat, AltsAt(s, idx, k, pat.a))

\* the matches among the word starts ks, none starting before pos
RECURSIVE FindAllFrom(_, _, _, _, _)
FindAllFrom(s, idx, pat, ks, pos) ==
    IF ks = <<>> THEN <<>>
    ELSE IF idx.starts[ks[1]] < pos THEN FindAllFrom(s, idx, pat, Tail(ks), pos)
    ELSE With(MatchAt(s, idx, ks[1], pat), LAMBDA m :
             IF m = <<>> THEN FindAllFrom(s, idx, pat, Tail(ks), pos)
             ELSE <<m.groups>> \o FindAllFrom(s, idx, pat, Tail(ks), m.stop))

\* re.findall(pattern, s): the non-overlapping matches from left to right,
\* each as the tuple of its groups
FindAll(pat, s, idx) ==
    FindAllFrom(s, idx, pat,
                SelectSeq([k \in 1..Len(idx.starts) |-> k],
                          LAMBDA k : AltsAt(s, idx, k, pat.a) # <<>>),
                1)

\* rf"\b{word}\b" of _assess_toxicity
WordPattern(word) == [a |-> <<word>>, b |-> <<>>]

\* self.harmful_patterns: each pattern is \b(a1|a2|..)\b, or
\* \b(a1|..)\b.*\b(b1|..)\b when b is not empty; dict order kept
harmful_patterns ==
    <<
    [name |-> "violence", patterns |-> <<
        [a |-> <<<<"k", "i", "l", "l">>,
              <<"m", "u", "r", "d", "e", "r">>,
              <<"a", "s", "s", "a", "s", "s", "i", "n", "a", "t", "e">>,
              <<"b", "o", "m", "b">>,
              <<"t", "e", "r", "r", "o", "r", "i", "s", "t">>,
              <<"a", "t", "t", "a", "c", "k">>>>,
         b |-> <<>>],
        [a |-> <<<<"h", "a", "r", "m">>,
              <<"h", "u", "r", "t">>,
              <<"i", "n", "j", "u", "r", "e">>,
              <<"d", "a", "m", "a", "g", "e">>,
              <<"d", "e", "s", "t", "r", "o", "y">>>>,
         b |-> <<>>],
        [a |-> <<<<"w", "e", "a", "p", "o", "n">>,
              <<"g", "u", "n">>,
              <<"k", "n", "i", "f", "e">>,
              <<"e", "x", "p", "l", "o", "s", "i", "v", "e">>>>,
         b |-> <<>>]>>],
    [name |-> "hate_speech", patterns |-> <<
        [a |-> <<<<"r", "a", "c", "i", "s", "t">>,
              <<"s", "e", "x", "i", "s", "t">>,
              <<"h", "o", "m", "o", "p", "h", "o", "b", "i", "c">>,
              <<"t", "r", "a", "n", "s", "p", "h", "o", "b", "i", "c">>>>,
         b |-> <<>>],
        [a |-> <<<<"d", "i", "s", "c", "r", "i", "m", "i", "n", "a", "t", "e">>,
              <<"p", "r", "e", "j", "u", "d", "i", "c", "e">>,
              <<"b", "i", "g", "o", "t">>>>,
         b |-> <<>>],
        [a |-> <<<<"s", "u", "p", "e", "r", "i", "o", "r">>,
              <<"i", "n", "f", "e", "r", "i", "o", "r">>,
              <<"h", "a", "t", "e">>>>,
         b |-> <<>>]>>],
    [name |-> "illegal_activities", patterns |-> <<
        [a |-> <<<<"i", "l", "l", "e", "g", "a", "l">>,
              <<"c", "r", "i", "m", "e">>,
              <<"c", "r", "i", "m", "i", "n", "a", "l">>,
              <<"f", "r", "a", "u", "d">>,
              <<"s", "t", "e", "a", "l">>>>,
         b |-> <<>>],
        [a |-> <<<<"d", "r", "u", "g", "s">>,
              <<"w", "e", "a", "p", "o", "n", "s">>,
              <<"h", "a", "c", "k", "i", "n", "g">>,
              <<"p", "h", "i", "s", "h", "i", "n", "g">>>>,
         b |-> <<>>],
        [a |-> <<<<"e", "x", "p", "l", "o", "i", "t">>,
              <<"m", "a", "n", "i", "p", "u", "l", "a", "t", "e">>,
              <<"d", "e", "c", "e", "i", "v", "e">>>>,
         b |-> <<>>]>>],
    [name |-> "personal_information", patterns |-> <<
        [a |-> <<<<"s", "s", "n">>,
              <<"s", "o", "c", "i", "a", "l", " ", "s", "e", "c", "u", "r", "i", "t", "y">>,
              <<"c", "r", "e", "d", "i", "t", " ", "c", "a", "r", "d">>,
              <<"p", "a", "s", "s", "w", "o", "r", "d">>>>,
         b |-> <<>>],
        [a |-> <<<<"a", "d", "d", "r", "e", "s", "s">>,
              <<"p", "h", "o", "n", "e">>,
              <<"e", "m", "a", "i", "l">>,
              <<"p", "e", "r", "s", "o", "n", "a", "l">>>>,
         b |-> <<>>],
        [a |-> <<<<"p", "r", "i", "v", "a", "t", "e">>,
              <<"c", "o", "n", "f", "i", "d", "e", "n", "t", "i", "a", "l">>,
              <<"s", "e", "c", "r", "e", "t">>>>,
         b |-> <<>>]>>]
    >>

\* self.bias_indicators
bias_indicators ==
    <<
    [name |-> "gender_bias", patterns |-> <<
        [a |-> <<<<"m", "a", "n">>,
              <<"w", "o", "m", "a", "n">>,
              <<"m", "a", "l", "e">>,
              <<"f", "e", "m", "a", "l", "e">>>>,
         b |-> <<<<"s", "h", "o", "u", "l", "d">>,
              <<"m", "u", "s", "t">>,
              <<"a", "l", "w", "a", "y", "s">>,
              <<"n", "e", "v", "e", "r">>>>],
        [a |-> <<<<"g", "i", "r", "l", "s">>,
              <<"b", "o", "y", "s">>>>,
         b |-> <<<<"c", "a", "n", "'", "t">>,
              <<"s", "h", "o", "u", "l", "d", "n", "'", "t">>,
              <<"m", "u", "s", "t", "n", "'", "t">>>>],
        [a |-> <<<<"f", "e", "m", "i", "n", "i", "n", "e">>,
              <<"m", "a", "s", "c", "u", "l", "i", "n", "e">>>>,
         b |-> <<<<"t", "r", "a", "i", "t", "s">>,
              <<"c", "h", "a", "r", "a", "c", "t", "e", "r", "i", "s", "t", "i", "c", "s">>>>]>>],
    [name |-> "racial_bias", patterns |-> <<
        [a |-> <<<<"r", "a", "c", "e">>,
              <<"e", "t", "h", "n", "i", "c", "i", "t", "y">>,
              <<"s", "k", "i", "n", " ", "c", "o", "l", "o", "r">>>>,
         b |-> <<<<"d", "e", "t", "e", "r", "m", "i", "n", "e", "s">>,
              <<"c", "a", "u", "s", "e", "s">>,
              <<"r", "e", "s", "u", "l", "t", "s", " ", "i", "n">>>>],
        [a |-> <<<<"c", "u", "l", "t", "u", "r", "a", "l">>,
              <<"b", "a", "c", "k", "g", "r", "o", "u", "n", "d">>>>,
         b |-> <<<<"i", "n", "f", "e", "r", "i", "o", "r">>,
              <<"s", "u", "p", "e", "r", "i", "o", "r">>>>],
        [a |-> <<<<"s", "t", "e", "r", "e", "o", "t", "y", "p", "e">>,
              <<"a", "s", "s", "u", "m", "p", "t", "i", "o", "n">>>>,
         b |-> <<<<"b", "a", "s", "e", "d", " ", "o", "n">>,
              <<"b", "e", "c", "a", "u", "s", "e", " ", "o", "f">>>>]>>],
    [name |-> "age_bias", patterns |-> <<
        [a |-> <<<<"y", "o", "u", "n", "g">>,
              <<"o", "l", "d">>,
              <<"e", "l", "d", "e", "r", "l", "y">>,
              <<"t", "e", "e", "n", "a", "g", "e", "r">>>>,
         b |-> <<<<"c", "a", "n", "'", "t">>,
              <<"s", "h", "o", "u", "l", "d", "n", "'", "t">>,
              <<"m", "u", "s", "t", "n", "'", "t">>>>],
        [a |-> <<<<"a", "g", "e">>,
              <<"g", "e", "n", "e", "r", "a", "t", "i", "o", "n">>>>,
         b |-> <<<<"d", "e", "t", "e", "r", "m", "i", "n", "e", "s">>,
              <<"l", "i", "m", "i", "t", "s">>,
              <<"r", "e", "s", "t", "r", "i", "c", "t", "s">>>>]>>],
    [name |-> "socioeconomic_bias", patterns |-> <<
        [a |-> <<<<"p", "o", "o", "r">>,
              <<"r", "i", "c", "h">>,
              <<"w", "e", "a", "l", "t", "h", "y">>,
              <<"p", "o", "v", "e", "r", "t", "y">>>>,
         b |-> <<<<"d", "e", "s", "e", "r", "v", "e", "s">>,
              <<"e", "a", "r", "n", "e", "d">>,
              <<"r", "e", "s", "p", "o", "n", "s", "i", "b", "l", "e">>>>],
        [a |-> <<<<"e", "d", "u", "c", "a", "t", "i", "o", "n">>,
              <<"i", "n", "c", "o", "m", "e">>>>,
         b |-> <<<<"d", "e", "t", "e", "r", "m", "i", "n", "e", "s">>,
              <<"c", "a", "u", "s", "e", "s">>,
              <<"r", "e", "s", "u", "l", "t", "s", " ", "i", "n">>>>]>>]
    >>

\* self.ethical_violations
ethical_violations ==
    <<
    [name |-> "privacy", patterns |-> <<
        [a |-> <<<<"p", "e", "r", "s", "o", "n", "a", "l", " ", "d", "a", "t", "a">>,
              <<"p", "r", "i", "v", "a", "t", "e", " ", "i", "n", "f", "o", "r", "m", "a", "t", "i", "o", "n">>,
              <<"c", "o", "n", "f", "i", "d", "e", "n", "t", "i", "a", "l">>>>,
         b |-> <<>>],
        [a |-> <<<<"t", "r", "a", "c", "k">>,
              <<"m", "o", "n", "i", "t", "o", "r">>,
              <<"s", "u", "r", "v", "e", "i", "l">>>>,
         b |-> <<<<"w", "i", "t", "h", "o", "u", "t", " ", "c", "o", "n", "s", "e", "n", "t">>>>]>>],
    [name |-> "manipulation", patterns |-> <<
        [a |-> <<<<"m", "a", "n", "i", "p", "u", "l", "a", "t", "e">>,
              <<"d", "e", "c", "e", "i", "v", "e">>,
              <<"t", "r", "i", "c", "k">>,
              <<"m", "i", "s", "l", "e", "a", "d">>>>,
         b |-> <<>>],
        [a |-> <<<<"p", "s", "y", "c", "h", "o", "l", "o", "g", "i", "c", "a", "l">>,
              <<"e", "m", "o", "t", "i", "o", "n", "a", "l">>>>,
         b |-> <<<<"c", "o", "n", "t", "r", "o", "l">>,
              <<"i", "n", "f", "l", "u", "e", "n", "c", "e">>>>]>>],
    [name |-> "discrimination", patterns |-> <<
        [a |-> <<<<"d", "i", "s", "c", "r", "i", "m", "i", "n", "a", "t", "e">>,
              <<"e", "x", "c", "l", "u", "d", "e">>,
              <<"p", "r", "e", "f", "e", "r">>>>,
         b |-> <<<<"b", "a", "s", "e", "d", " ", "o", "n">>,
              <<"b", "e", "c", "a", "u", "s", "e", " ", "o", "f">>>>],
        [a |-> <<<<"t", "r", "e", "a", "t", " ", "d", "i", "f", "f", "e", "r", "e", "n", "t", "l", "y">>>>,
         b |-> <<<<"r", "a", "c", "e">>,
              <<"g", "e", "n", "d", "e", "r">>,
              <<"a", "g", "e">>,
              <<"r", "e", "l", "i", "g", "i", "o", "n">>>>]>>]
    >>

\* the toxic_words list of _assess_toxicity
toxic_words ==
    <<<<"h", "a", "t", "e">>,
      <<"k", "i", "l", "l">>,
      <<"h", "u", "r", "t">>,
      <<"h", "a", "r", "m">>,
      <<"a", "t", "t", "a", "c", "k">>,
      <<"d", "e", "s", "t", "r", "o", "y">>,
      <<"s", "t", "u", "p", "i", "d">>,
      <<"i", "d", "i", "o", "t">>,
      <<"m", "o", "r", "o", "n">>,
      <<"w", "o", "r", "t", "h", "l", "e", "s", "s">>,
      <<"u", "s", "e", "l", "e", "s", "s">>>>

\* the harmful_words list of validate_prompt
harmful_words ==
    <<<<"k", "i", "l", "l">>,
      <<"h", "a", "t", "e">>,
      <<"h", "a", "r", "m">>,
      <<"a", "t", "t", "a", "c", "k">>,
      <<"d", "e", "s", "t", "r", "o", "y">>>>

harmful_compiled == CompileTable(harmful_patterns)

bias_compiled == CompileTable(bias_indicators)

ethical_compiled == CompileTable(ethical_violations)

toxic_compiled == [k \in 1..Len(toxic_words) |-> Compile(WordPattern(toxic_words[k]))]

(***************************************************************************)
(* Python values.  A str prompt is [t |-> "str", s |-> characters]; values *)
(* of other types carry their type name only.  A dict is a function from   *)
(* its keys.  An operation that can raise returns [raised |-> TRUE, err]   *)
(* or [raised |-> FALSE, ...its result...].                                *)
(***************************************************************************)
None == [t |-> "NoneType"]

Str(chars) == [t |-> "str", s |-> chars]

Dict(d) == [t |-> "dict", d |-> d]

Float(f) == [t |-> "float", v |-> f]

Raise(msg) == [raised |-> TRUE, err |-> msg]

\* bool(x): None, "", {} and [] are falsy
Truthy(x) ==
    CASE x.t = "NoneType" -> FALSE
      [] x.t = "str"      -> x.s # <<>>
      [] x.t = "dict"     -> DOMAIN x.d # {}
      [] OTHER            -> TRUE

\* x.lower(): only a str has the method
StrLower(x) ==
    IF x.t = "str" THEN [raised |-> FALSE, s |-> Lower(x.s)]
    ELSE Raise(<<"'", x.t, "' object has no attribute 'lower'">>)

\* d.get(key, default) for a dict d with str keys
DictGet(d, key, default) == IF key \in DOMAIN d THEN d[key] ELSE default

F0_0 == FZero

\* 1.0, the binary64 0x1.0000000000000p+0
F1_0 == [neg |-> FALSE, m |-> <<0, 0, 0, 128>>, e |-> -52]

\* 0.1, the binary64 0x1.999999999999ap-4
F0_1 == [neg |-> FALSE, m |-> <<6554, 13107, 26214, 204>>, e |-> -56]

\* 0.2, the binary64 0x1.999999999999ap-3
F0_2 == [neg |-> FALSE, m |-> <<6554, 13107, 26214, 204>>, e |-> -55]

\* 0.25, the binary64 0x1.0000000000000p-2
F0_25 == [neg |-> FALSE, m |-> <<0, 0, 0, 128>>, e |-> -54]

\* 0.3, the binary64 0x1.3333333333333p-2
F0_3 == [neg |-> FALSE, m |-> <<13107, 26214, 19660, 153>>, e |-> -54]

\* 0.4, the binary64 0x1.999999999999ap-2
F0_4 == [neg |-> FALSE, m |-> <<6554, 13107, 26214, 204>>, e |-> -54]

\* 0.5, the binary64 0x1.0000000000000p-1
F0_5 == [neg |-> FALSE, m |-> <<0, 0, 0, 128>>, e |-> -53]

\* 0.6, the binary64 0x1.3333333333333p-1
F0_6 == [neg |-> FALSE, m |-> <<13107, 26214, 19660, 153>>, e |-> -53]

\* 0.7, the binary64 0x1.6666666666666p-1
F0_7 == [neg |-> FALSE, m |-> <<26214, 19660, 6553, 179>>, e |-> -53]

\* 0.8, the binary64 0x1.999999999999ap-1
F0_8 == [neg |-> FALSE, m |-> <<6554, 13107, 26214, 204>>, e |-> -53]

\* 0.9, the binary64 0x1.ccccccccccccdp-1
F0_9 == [neg |-> FALSE, m |-> <<19661, 6553, 13107, 230>>, e |-> -53]

\* the default table, were the values of "strict" and "permissive" exchanged
SwappedSafetyLevels ==
    Dict([k \in {"strict", "standard", "permissive"} |->
            CASE k = "strict"     -> Float(F0_5)
              [] k = "standard"   -> Float(F0_7)
              [] k = "permissive" -> Float(F0_9)])

\* SafetyConfig.safety_levels, the default
DefaultSafetyLevels ==
    Dict([k \in {"strict", "standard", "permissive"} |->
            CASE k = "strict"     -> Float(F0_9)
              [] k = "standard"   -> Float(F0_7)
              [] k = "permissive" -> Float(F0_5)])

\* self.bias_weights
bias_weights ==
    [k \in {"gender_bias", "racial_bias", "age_bias", "socioeconomic_bias"} |->
        CASE k = "gender_bias"        -> F0_3
          [] k = "racial_bias"        -> F0_3
          [] k = "age_bias"           -> F0_2
          [] k = "socioeconomic_bias" -> F0_2]

\* self.bias_mitigation
bias_mitigation ==
    [k \in {"gender_bias", "racial_bias", "age_bias", "socioeconomic_bias"} |->
        CASE k = "gender_bias"        -> "Use gender-neutral language and avoid stereotypes"
          [] k = "racial_bias"        -> "Focus on individual characteristics, not group assumptions"
          [] k = "age_bias"           -> "Avoid age-based assumptions and generalizations"
          [] k = "socioeconomic_bias" -> "Consider individual circumstances, not economic status"]

(***************************************************************************)
(* The analyzers                                                           *)
(***************************************************************************)
\* the loop "for pattern in patterns" of the three pattern analyzers, from
\* pattern k on: every pattern with matches adds len(matches) * inc to the
\* score and its list of matches to found
RECURSIVE ScanPatterns(_, _, _, _, _, _, _)
ScanPatterns(patterns, k, text, idx, inc, score, found) ==
    IF k > Len(patterns) THEN [score |-> score, found |-> found]
    ELSE With(FindAll(patterns[k], text, idx), LAMBDA matches :
             IF matches # <<>>
             THEN ScanPatterns(patterns, k + 1, text, idx, inc,
                               FAdd(score, FMul(FromInt(Len(matches)), inc)),
                               Append(found, matches))
             ELSE ScanPatterns(patterns, k + 1, text, idx, inc, score, found))

\* the scores of a table's categories as the loops leave them, were
\* "scores[category] = min(score, 1.0)" to store the bare score
UnclampedScores(table, scans) ==
    [n \in {table[c].name : c \in 1..Len(table)} |->
        LET c == CHOOSE c \in 1..Len(table) : table[c].name = n
        IN  scans[c].score]

\* the scores of a table's categories, clamped with min(score, 1.0)
ClampedScores(table, scans) ==
    [n \in {table[c].name : c \in 1..Len(table)} |->
        LET c == CHOOSE c \in 1..Len(table) : table[c].name = n
        IN  FMin(scans[c].score, F1_0)]

\* the <<category, matches>> kept, were the issue of a pattern assigned
\* (category_issues = [..]) where the code appends it: the last matching
\* pattern of a category only
RECURSIVE FoundLast(_, _, _)
FoundLast(table, scans, c) ==
    IF c > Len(table) THEN <<>>
    ELSE (IF scans[c].found = <<>> THEN <<>>
          ELSE <<<<table[c].name, scans[c].found[Len(scans[c].found)]>>>>)
         \o FoundLast(table, scans, c + 1)

\* the <<category, matches>> of every pattern that matched, in the order of
\* the table: one issue string is made of each
RECURSIVE FoundFrom(_, _, _)
FoundFrom(table, scans, c) ==
    IF c > Len(table) THEN <<>>
    ELSE [j \in 1..Len(scans[c].found) |-> <<table[c].name, scans[c].found[j]>>]
         \o FoundFrom(table, scans, c + 1)

\* max(scores.values()) in the order of the table
RECURSIVE MaxFrom(_, _, _, _)
MaxFrom(table, scores, c, best) ==
    IF c > Len(table) THEN best
    ELSE MaxFrom(table, scores, c + 1, FMax(best, scores[table[c].name]))

\* the overall score, were it min(sum(scores.values()), 1.0)
RECURSIVE TotalFrom(_, _, _, _)
TotalFrom(table, scores, c, total) ==
    IF c > Len(table) THEN FMin(total, F1_0)
    ELSE TotalFrom(table, scores, c + 1, FAdd(total, scores[table[c].name]))

TotalValue(table, scores) == TotalFrom(table, scores, 1, F0_0)

MaxValue(table, scores) == MaxFrom(table, scores, 2, scores[table[1].name])

ContentIssue(category, matches) == <<"Detected ", category, " content: ", matches>>

\* SafetyChecker._analyze_content
AnalyzeContent(prompt) ==
    With(StrLower(prompt), LAMBDA low :
        IF low.raised THEN low
        ELSE With(Index(low.s), LAMBDA idx :
             With([c \in 1..Len(harmful_patterns) |->
                      ScanPatterns(harmful_compiled[c].patterns, 1, low.s, idx,
                                   F0_2, F0_0, <<>>)],
                  LAMBDA scans :
             With(ClampedScores(harmful_patterns, scans), LAMBDA content_scores :
                 [raised |-> FALSE,
                  content_scores |-> content_scores,
                  issues |-> LET f == FoundFrom(harmful_patterns, scans, 1)
                            IN  [j \in 1..Len(f) |-> ContentIssue(f[j][1], f[j][2])],
                  overall_content_score |-> MaxValue(harmful_patterns, content_scores)]))))

BiasIssue(bias_type, matches) == <<"Potential ", bias_type, ": ", matches>>

\* the overall bias score, were it max(bias_scores.values())
RECURSIVE GreatestFrom(_, _, _)
GreatestFrom(bias_scores, c, total) ==
    IF c > Len(bias_indicators) THEN total
    ELSE GreatestFrom(bias_scores, c + 1,
                      FMax(total, bias_scores[bias_indicators[c].name]))

\* sum(bias_scores[t] * bias_weights[t] for t in bias_scores), from 0
RECURSIVE WeightedSumFrom(_, _, _)
WeightedSumFrom(bias_scores, c, total) ==
    IF c > Len(bias_indicators) THEN total
    ELSE LET n == bias_indicators[c].name
         IN  WeightedSumFrom(bias_scores, c + 1,
                             FAdd(total, FMul(bias_scores[n], bias_weights[n])))

\* SafetyChecker._detect_bias
DetectBias(prompt) ==
    With(StrLower(prompt), LAMBDA low :
        IF low.raised THEN low
        ELSE With(Index(low.s), LAMBDA idx :
             With([c \in 1..Len(bias_indicators) |->
                      ScanPatterns(bias_compiled[c].patterns, 1, low.s, idx,
                                   F0_3, F0_0, <<>>)],
                  LAMBDA scans :
             With(ClampedScores(bias_indicators, scans), LAMBDA bias_scores :
                 [raised |-> FALSE,
                  bias_scores |-> bias_scores,
                  bias_score |-> WeightedSumFrom(bias_scores, 1, F0_0),
                  issues |-> LET f == FoundFrom(bias_indicators, scans, 1)
                            IN  [j \in 1..Len(f) |-> BiasIssue(f[j][1], f[j][2])]]))))

\* _check_context_ethics, were it to return no violation for a context that
\* is no dict (an isinstance guard before context.get)
CheckContextEthicsGuarded(prompt, context) ==
    IF context.t # "dict"
    THEN [raised |-> FALSE, violations |-> <<>>]
    ELSE LET text == Lower(prompt.s)
             privacy ==
                 IF /\ DictGet(context.d, "contains_personal_data", FALSE)
                    /\ \/ Contains(text, <<"p", "e", "r", "s", "o", "n", "a", "l">>)
                       \/ Contains(text, <<"p", "r", "i", "v", "a", "t", "e">>)
                 THEN <<"Potential privacy violation in context">>
                 ELSE <<>>
             manipulation ==
                 IF /\ DictGet(context.d, "sensitive_context", FALSE)
                    /\ \/ Contains(text, <<"m", "a", "n", "i", "p", "u", "l", "a", "t", "e">>)
                       \/ Contains(text, <<"i", "n", "f", "l", "u", "e", "n", "c", "e">>)
                 THEN <<"Potential manipulation in sensitive context">>
                 ELSE <<>>
         IN  [raised |-> FALSE, violations |-> privacy \o manipulation]

\* w is one of the words of the text
IsWordOf(text, w) == w \in Range(Index(text).words)

\* _check_context_ethics, were the four words looked for as whole words as
\* the patterns of the tables are
CheckContextEthicsWholeWords(prompt, context) ==
    IF context.t # "dict"
    THEN Raise(<<"'", context.t, "' object has no attribute 'get'">>)
    ELSE LET text == Lower(prompt.s)
             privacy ==
                 IF /\ DictGet(context.d, "contains_personal_data", FALSE)
                    /\ \/ IsWordOf(text, <<"p", "e", "r", "s", "o", "n", "a", "l">>)
                       \/ IsWordOf(text, <<"p", "r", "i", "v", "a", "t", "e">>)
                 THEN <<"Potential privacy violation in context">>
                 ELSE <<>>
             manipulation ==
                 IF /\ DictGet(context.d, "sensitive_context", FALSE)
                    /\ \/ IsWordOf(text, <<"m", "a", "n", "i", "p", "u", "l", "a", "t", "e">>)
                       \/ IsWordOf(text, <<"i", "n", "f", "l", "u", "e", "n", "c", "e">>)
                 THEN <<"Potential manipulation in sensitive context">>
                 ELSE <<>>
         IN  [raised |-> FALSE, violations |-> privacy \o manipulation]

\* SafetyChecker._check_context_ethics; context is truthy
CheckContextEthics(prompt, context) ==
    IF context.t # "dict"
    THEN Raise(<<"'", context.t, "' object has no attribute 'get'">>)
    ELSE LET text == Lower(prompt.s)
             privacy ==
                 IF /\ DictGet(context.d, "contains_personal_data", FALSE)
                    /\ \/ Contains(text, <<"p", "e", "r", "s", "o", "n", "a", "l">>)
                       \/ Contains(text, <<"p", "r", "i", "v", "a", "t", "e">>)
                 THEN <<"Potential privacy violation in context">>
                 ELSE <<>>
             manipulation ==
                 IF /\ DictGet(context.d, "sensitive_context", FALSE)
                    /\ \/ Contains(text, <<"m", "a", "n", "i", "p", "u", "l", "a", "t", "e">>)
                       \/ Contains(text, <<"i", "n", "f", "l", "u", "e", "n", "c", "e">>)
                 THEN <<"Potential manipulation in sensitive context">>
                 ELSE <<>>
         IN  [raised |-> FALSE, violations |-> privacy \o manipulation]

EthicalIssue(principle, matches) == <<"Ethical violation (", principle, "): ", matches>>

\* _check_ethical_alignment, were a match to add 0.2 as in _analyze_content
CheckEthicalAlignmentByFifths(prompt, context) ==
    With(StrLower(prompt), LAMBDA low :
        IF low.raised THEN low
        ELSE With(Index(low.s), LAMBDA idx :
             With([c \in 1..Len(ethical_violations) |->
                      ScanPatterns(ethical_compiled[c].patterns, 1, low.s, idx,
                                   F0_2, F0_0, <<>>)],
                  LAMBDA scans :
             With(ClampedScores(ethical_violations, scans), LAMBDA ethical_scores :
             With(IF Truthy(context)
                  THEN CheckContextEthics(prompt, context)
                  ELSE [raised |-> FALSE, violations |-> <<>>],
                  LAMBDA ctx :
                 IF ctx.raised THEN ctx
                 ELSE [raised |-> FALSE,
                       ethical_scores |-> ethical_scores,
                       violations |-> LET f == FoundFrom(ethical_violations, scans, 1)
                                     IN  [j \in 1..Len(f) |-> EthicalIssue(f[j][1], f[j][2])]
                                         \o ctx.violations,
                       overall_ethical_score |->
                           MaxValue(ethical_violations, ethical_scores)])))))

\* _check_ethical_alignment, were a violation derived from the context to
\* set the overall ethical score to 1.0
CheckEthicalAlignmentScoringContext(prompt, context) ==
    With(StrLower(prompt), LAMBDA low :
        IF low.raised THEN low
        ELSE With(Index(low.s), LAMBDA idx :
             With([c \in 1..Len(ethical_violations) |->
                      ScanPatterns(ethical_compiled[c].patterns, 1, low.s, idx,
                                   F0_4, F0_0, <<>>)],
                  LAMBDA scans :
             With(ClampedScores(ethical_violations, scans), LAMBDA ethical_scores :
             With(IF Truthy(context)
                  THEN CheckContextEthics(prompt, context)
                  ELSE [raised |-> FALSE, violations |-> <<>>],
                  LAMBDA ctx :
                 IF ctx.raised THEN ctx
                 ELSE [raised |-> FALSE,
                       ethical_scores |-> ethical_scores,
                       violations |-> LET f == FoundFrom(ethical_violations, scans, 1)
                                     IN  [j \in 1..Len(f) |-> EthicalIssue(f[j][1], f[j][2])]
                                         \o ctx.violations,
                       overall_ethical_score |->
                           IF ctx.violations # <<>> THEN F1_0
                           ELSE MaxValue(ethical_violations, ethical_scores)])))))

\* SafetyChecker._check_ethical_alignment
CheckEthicalAlignment(prompt, context) ==
    With(StrLower(prompt), LAMBDA low :
        IF low.raised THEN low
        ELSE With(Index(low.s), LAMBDA idx :
             With([c \in 1..Len(ethical_violations) |->
                      ScanPatterns(ethical_compiled[c].patterns, 1, low.s, idx,
                                   F0_4, F0_0, <<>>)],
                  LAMBDA scans :
             With(ClampedScores(ethical_violations, scans), LAMBDA ethical_scores :
             With(IF Truthy(context)
                  THEN CheckContextEthics(prompt, context)
                  ELSE [raised |-> FALSE, violations |-> <<>>],
                  LAMBDA ctx :
                 IF ctx.raised THEN ctx
                 ELSE [raised |-> FALSE,
                       ethical_scores |-> ethical_scores,
                       violations |-> LET f == FoundFrom(ethical_violations, scans, 1)
                                     IN  [j \in 1..Len(f) |-> EthicalIssue(f[j][1], f[j][2])]
                                         \o ctx.violations,
                       overall_ethical_score |->
                           MaxValue(ethical_violations, ethical_scores)])))))

\* the loop "for word in toxic_words" of _assess_toxicity, from word k on
RECURSIVE ScanToxic(_, _, _, _, _)
ScanToxic(k, text, idx, score, instances) ==
    IF k > Len(toxic_words) THEN [score |-> score, instances |-> instances]
    ELSE With(FindAll(toxic_compiled[k], text, idx), LAMBDA matches :
             IF matches # <<>>
             THEN ScanToxic(k + 1, text, idx,
                            FAdd(score, FMul(FromInt(Len(matches)), F0_1)),
                            Append(instances,
                                   <<"Toxic word '", toxic_words[k], "': ",
                                     Len(matches), " instances">>))
             ELSE ScanToxic(k + 1, text, idx, score, instances))

\* _assess_toxicity, were the line "toxicity_score = min(toxicity_score, 1.0)"
\* left out
AssessToxicityUnclamped(prompt) ==
    With(StrLower(prompt), LAMBDA low :
        IF low.raised THEN low
        ELSE With(ScanToxic(1, low.s, Index(low.s), F0_0, <<>>), LAMBDA scan :
                 [raised |-> FALSE,
                  toxicity_score |-> scan.score,
                  toxic_instances |-> scan.instances]))

\* SafetyChecker._assess_toxicity
AssessToxicity(prompt) ==
    With(StrLower(prompt), LAMBDA low :
        IF low.raised THEN low
        ELSE With(ScanToxic(1, low.s, Index(low.s), F0_0, <<>>), LAMBDA scan :
                 [raised |-> FALSE,
                  toxicity_score |-> FMin(scan.score, F1_0),
                  toxic_instances |-> scan.instances]))

\* the score, were the weighted sum taken of the risk scores themselves
\* and not of their complements 1.0 - score
CalculateRiskScore(content_analysis, bias_analysis, ethical_analysis, toxicity_analysis) ==
    LET overall_score  ==
            FAdd(FAdd(FAdd(FMul(content_analysis.overall_content_score, F0_3),
                           FMul(bias_analysis.bias_score, F0_25)),
                      FMul(ethical_analysis.overall_ethical_score, F0_25)),
                 FMul(toxicity_analysis.toxicity_score, F0_2))
    IN  FMax(F0_0, FMin(F1_0, overall_score))

\* the score, were the weight of bias 0.3 and the weights summed to 1.05
CalculateScoreOverweight(content_analysis, bias_analysis, ethical_analysis, toxicity_analysis) ==
    LET content_score  == FSub(F1_0, content_analysis.overall_content_score)
        bias_score     == FSub(F1_0, bias_analysis.bias_score)
        ethical_score  == FSub(F1_0, ethical_analysis.overall_ethical_score)
        toxicity_score == FSub(F1_0, toxicity_analysis.toxicity_score)
        overall_score  ==
            FAdd(FAdd(FAdd(FMul(content_score, F0_3),
                           FMul(bias_score, F0_3)),
                      FMul(ethical_score, F0_25)),
                 FMul(toxicity_score, F0_2))
    IN  FMax(F0_0, FMin(F1_0, overall_score))

\* the score, were the weight of content 0.4 and that of toxicity 0.1
CalculateScoreContentHeavy(content_analysis, bias_analysis, ethical_analysis, toxicity_analysis) ==
    LET content_score  == FSub(F1_0, content_analysis.overall_content_score)
        bias_score     == FSub(F1_0, bias_analysis.bias_score)
        ethical_score  == FSub(F1_0, ethical_analysis.overall_ethical_score)
        toxicity_score == FSub(F1_0, toxicity_analysis.toxicity_score)
        overall_score  ==
            FAdd(FAdd(FAdd(FMul(content_score, F0_4),
                           FMul(bias_score, F0_25)),
                      FMul(ethical_score, F0_25)),
                 FMul(toxicity_score, F0_1))
    IN  FMax(F0_0, FMin(F1_0, overall_score))

\* SafetyChecker._calculate_safety_score
CalculateSafetyScore(content_analysis, bias_analysis, ethical_analysis, toxicity_analysis) ==
    LET content_score  == FSub(F1_0, content_analysis.overall_content_score)
        bias_score     == FSub(F1_0, bias_analysis.bias_score)
        ethical_score  == FSub(F1_0, ethical_analysis.overall_ethical_score)
        toxicity_score == FSub(F1_0, toxicity_analysis.toxicity_score)
        overall_score  ==
            FAdd(FAdd(FAdd(FMul(content_score, F0_3),
                           FMul(bias_score, F0_25)),
                      FMul(ethical_score, F0_25)),
                 FMul(toxicity_score, F0_2))
    IN  FMax(F0_0, FMin(F1_0, overall_score))

\* the levels, were the cut-offs compared with <= and not with >=
DetermineRiskLevelReversed(safety_score) ==
    IF FLe(safety_score, F0_8) THEN "low"
    ELSE IF FLe(safety_score, F0_6) THEN "medium"
    ELSE IF FLe(safety_score, F0_4) THEN "high"
    ELSE "critical"

\* the levels, were the cut-offs exclusive: > and not >=
DetermineRiskLevelExclusive(safety_score) ==
    IF FGt(safety_score, F0_8) THEN "low"
    ELSE IF FGt(safety_score, F0_6) THEN "medium"
    ELSE IF FGt(safety_score, F0_4) THEN "high"
    ELSE "critical"

\* SafetyChecker._determine_risk_level
DetermineRiskLevel(safety_score) ==
    IF FGe(safety_score, F0_8) THEN "low"
    ELSE IF FGe(safety_score, F0_6) THEN "medium"
    ELSE IF FGe(safety_score, F0_4) THEN "high"
    ELSE "critical"

\* the bias part, were the test "score >= 0.3"
RECURSIVE BiasRecommendationsInclusive(_, _)
BiasRecommendationsInclusive(bias_scores, c) ==
    IF c > Len(bias_indicators) THEN <<>>
    ELSE LET bias_type == bias_indicators[c].name
         IN  (IF FGe(bias_scores[bias_type], F0_3)
              THEN <<<<"Address ", bias_type, ": ",
                       DictGet(bias_mitigation, bias_type, "Review for bias")>>>>
              ELSE <<>>)
             \o BiasRecommendationsInclusive(bias_scores, c + 1)

\* the bias part of _generate_recommendations, from bias type c on
RECURSIVE BiasRecommendations(_, _)
BiasRecommendations(bias_scores, c) ==
    IF c > Len(bias_indicators) THEN <<>>
    ELSE LET bias_type == bias_indicators[c].name
         IN  (IF FGt(bias_scores[bias_type], F0_3)
              THEN <<<<"Address ", bias_type, ": ",
                       DictGet(bias_mitigation, bias_type, "Review for bias")>>>>
              ELSE <<>>)
             \o BiasRecommendations(bias_scores, c + 1)

\* SafetyChecker._generate_recommendations
GenerateRecommendations(content_analysis, bias_analysis, ethical_analysis, toxicity_analysis) ==
    (IF FGt(content_analysis.overall_content_score, F0_5)
     THEN <<"Review content for potentially harmful language">> ELSE <<>>)
    \o BiasRecommendations(bias_analysis.bias_scores, 1)
    \o (IF FGt(ethical_analysis.overall_ethical_score, F0_5)
        THEN <<"Review for ethical compliance">> ELSE <<>>)
    \o (IF FGt(toxicity_analysis.toxicity_score, F0_5)
        THEN <<"Reduce toxic language and tone">> ELSE <<>>)

(***************************************************************************)
(* check_prompt                                                            *)
(***************************************************************************)
\* the lookup, were its default the threshold of "permissive":
\* safety_levels.get(safety_level, 0.5)
GetThresholdLenient(safety_levels, safety_level) ==
    IF safety_levels.t # "dict"
    THEN Raise(<<"'", safety_levels.t, "' object has no attribute 'get'">>)
    ELSE IF safety_level.t = "list"
    THEN Raise(<<"unhashable type: '", safety_level.t, "'">>)
    ELSE [raised |-> FALSE,
          value |-> IF safety_level.t = "str"
                    THEN DictGet(safety_levels.d, safety_level.s, Float(F0_5))
                    ELSE Float(F0_5)]

\* self.config.safety.safety_levels.get(safety_level, 0.7)
GetThreshold(safety_levels, safety_level) ==
    IF safety_levels.t # "dict"
    THEN Raise(<<"'", safety_levels.t, "' object has no attribute 'get'">>)
    ELSE IF safety_level.t = "list"
    THEN Raise(<<"unhashable type: '", safety_level.t, "'">>)
    ELSE [raised |-> FALSE,
          value |-> IF safety_level.t = "str"
                    THEN DictGet(safety_levels.d, safety_level.s, Float(F0_7))
                    ELSE Float(F0_7)]

\* the comparison, were it written safety_score > safety_threshold
ScoreExceeds(safety_score, safety_threshold) ==
    IF safety_threshold.t # "float"
    THEN Raise(<<"'>' not supported between instances of 'float' and '",
                 safety_threshold.t, "'">>)
    ELSE [raised |-> FALSE, value |-> FGt(safety_score, safety_threshold.v)]

\* safety_score >= safety_threshold
ScoreMeets(safety_score, safety_threshold) ==
    IF safety_threshold.t # "float"
    THEN Raise(<<"'>=' not supported between instances of 'float' and '",
                 safety_threshold.t, "'">>)
    ELSE [raised |-> FALSE, value |-> FGe(safety_score, safety_threshold.v)]

\* the SafetyResult of an except branch that would let the prompt through
FailOpen(e) ==
    [is_safe            |-> TRUE,
     safety_score       |-> F1_0,
     risk_level         |-> "unknown",
     detected_issues    |-> <<>>,
     bias_score         |-> F0_0,
     toxicity_score     |-> F0_0,
     ethical_violations |-> <<>>,
     recommendations    |-> <<>>,
     reason             |-> <<"Safety check error: ", e>>]

\* the SafetyResult of the except branch, were its reason left at the
\* default of the dataclass, None
FailClosedWithoutReason(e) ==
    [is_safe            |-> FALSE,
     safety_score       |-> F0_0,
     risk_level         |-> "unknown",
     detected_issues    |-> <<"Safety check error">>,
     bias_score         |-> F1_0,
     toxicity_score     |-> F1_0,
     ethical_violations |-> <<"Safety system failure">>,
     recommendations    |-> <<"Contact system administrator">>,
     reason             |-> None]

\* the SafetyResult of the except branch of check_prompt
FailClosed(e) ==
    [is_safe            |-> FALSE,
     safety_score       |-> F0_0,
     risk_level         |-> "unknown",
     detected_issues    |-> <<"Safety check error">>,
     bias_score         |-> F1_0,
     toxicity_score     |-> F1_0,
     ethical_violations |-> <<"Safety system failure">>,
     recommendations    |-> <<"Contact system administrator">>,
     reason             |-> <<"Safety check error: ", e>>]

\* what "except Exception as e" does with the exception raised at a step
Except(step, e) == [result |-> FailClosed(e), failed |-> step, analyses |-> None]

\* check_prompt, were detected_issues extended by the toxic_instances of
\* the toxicity analysis too
CheckPromptListingToxicity(safety_levels, prompt, safety_level, context) ==
    With(GetThreshold(safety_levels, safety_level), LAMBDA threshold :
    IF threshold.raised THEN Except("threshold", threshold.err) ELSE
    With(AnalyzeContent(prompt), LAMBDA content_analysis :
    IF content_analysis.raised THEN Except("content", content_analysis.err) ELSE
    With(DetectBias(prompt), LAMBDA bias_analysis :
    IF bias_analysis.raised THEN Except("bias", bias_analysis.err) ELSE
    With(CheckEthicalAlignment(prompt, context), LAMBDA ethical_analysis :
    IF ethical_analysis.raised THEN Except("ethical", ethical_analysis.err) ELSE
    With(AssessToxicity(prompt), LAMBDA toxicity_analysis :
    IF toxicity_analysis.raised THEN Except("toxicity", toxicity_analysis.err) ELSE
    With(CalculateSafetyScore(content_analysis, bias_analysis,
                              ethical_analysis, toxicity_analysis),
         LAMBDA safety_score :
    With(ScoreMeets(safety_score, threshold.value), LAMBDA is_safe :
    IF is_safe.raised THEN Except("is_safe", is_safe.err) ELSE
        [result |->
            [is_safe            |-> is_safe.value,
             safety_score       |-> safety_score,
             risk_level         |-> DetermineRiskLevel(safety_score),
             detected_issues    |-> content_analysis.issues \o bias_analysis.issues
                                    \o ethical_analysis.violations
                                    \o toxicity_analysis.toxic_instances,
             bias_score         |-> bias_analysis.bias_score,
             toxicity_score     |-> toxicity_analysis.toxicity_score,
             ethical_violations |-> ethical_analysis.violations,
             recommendations    |->
                 GenerateRecommendations(content_analysis, bias_analysis,
                                         ethical_analysis, toxicity_analysis),
             reason             |-> IF is_safe.value THEN None
                                    ELSE <<"Safety threshold not met">>],
         failed |-> "none",
         analyses |-> [content  |-> content_analysis,
                       bias     |-> bias_analysis,
                       ethical  |-> ethical_analysis,
                       toxicity |-> toxicity_analysis]])))))))

\* SafetyChecker.check_prompt: the SafetyResult it returns; and for the log,
\* the step of the try block that raised ("none" when the analysis
\* completed) and what the four analyzers returned
CheckPrompt(safety_levels, prompt, safety_level, context) ==
    With(GetThreshold(safety_levels, safety_level), LAMBDA threshold :
    IF threshold.raised THEN Except("threshold", threshold.err) ELSE
    With(AnalyzeContent(prompt), LAMBDA content_analysis :
    IF content_analysis.raised THEN Except("content", content_analysis.err) ELSE
    With(DetectBias(prompt), LAMBDA bias_analysis :
    IF bias_analysis.raised THEN Except("bias", bias_analysis.err) ELSE
    With(CheckEthicalAlignment(prompt, context), LAMBDA ethical_analysis :
    IF ethical_analysis.raised THEN Except("ethical", ethical_analysis.err) ELSE
    With(AssessToxicity(prompt), LAMBDA toxicity_analysis :
    IF toxicity_analysis.raised THEN Except("toxicity", toxicity_analysis.err) ELSE
    With(CalculateSafetyScore(content_analysis, bias_analysis,
                              ethical_analysis, toxicity_analysis),
         LAMBDA safety_score :
    With(ScoreMeets(safety_score, threshold.value), LAMBDA is_safe :
    IF is_safe.raised THEN Except("is_safe", is_safe.err) ELSE
        [result |->
            [is_safe            |-> is_safe.value,
             safety_score       |-> safety_score,
             risk_level         |-> DetermineRiskLevel(safety_score),
             detected_issues    |-> content_analysis.issues \o bias_analysis.issues
                                    \o ethical_analysis.violations,
             bias_score         |-> bias_analysis.bias_score,
             toxicity_score     |-> toxicity_analysis.toxicity_score,
             ethical_violations |-> ethical_analysis.violations,
             recommendations    |->
                 GenerateRecommendations(content_analysis, bias_analysis,
                                         ethical_analysis, toxicity_analysis),
             reason             |-> IF is_safe.value THEN None
                                    ELSE <<"Safety threshold not met">>],
         failed |-> "none",
         analyses |-> [content  |-> content_analysis,
                       bias     |-> bias_analysis,
                       ethical  |-> ethical_analysis,
                       toxicity |-> toxicity_analysis]])))))))

\* validate_prompt, were the prompt compared without prompt.lower()
ValidatePromptCaseSensitive(prompt) ==
    ~\E k \in 1..Len(harmful_words) : Contains(prompt.s, harmful_words[k])

\* SafetyChecker.validate_prompt
ValidatePrompt(prompt) ==
    ~\E k \in 1..Len(harmful_words) : Contains(Lower(prompt.s), harmful_words[k])

(***************************************************************************)
(* The processing path: MetaPromptEngine and the adapters it holds         *)
(***************************************************************************)
\* str.startswith
StartsWith(s, prefix) == LitAt(s, 1, prefix)

\* the environment variable each adapter's constructor needs, in the order
\* MetaPromptEngine.__init__ builds the adapters
AdapterKeys ==
    <<[adapter |-> "gemini",    key |-> "GEMINI_API_KEY",
       error |-> "GEMINI_API_KEY not set in environment."],
      [adapter |-> "gemma",     key |-> "GEMINI_API_KEY",
       error |-> "GEMINI_API_KEY not set in environment."],
      [adapter |-> "openai",    key |-> "OPENAI_API_KEY",
       error |-> "OPENAI_API_KEY not set in environment or provided."],
      [adapter |-> "anthropic", key |-> "ANTHROPIC_API_KEY",
       error |-> "ANTHROPIC_API_KEY not set in environment or provided."]>>

\* MetaPromptEngine.__init__ under the environment keys: the adapters, or
\* the error of the first adapter whose key is not set
NewEngine(keys) ==
    LET missing == {k \in 1..Len(AdapterKeys) : AdapterKeys[k].key \notin keys}
    IN  IF missing = {}
        THEN [raised |-> FALSE,
              adapters |-> {AdapterKeys[k].adapter : k \in 1..Len(AdapterKeys)}]
        ELSE LET k == CHOOSE k \in missing : \A j \in missing : k <= j
             IN  Raise(<<AdapterKeys[k].error>>)

\* MetaPromptEngine._get_adapter
GetAdapter(m) ==
    IF \/ StartsWith(m, <<"m", "o", "d", "e", "l", "s", "/", "g", "e", "m", "i", "n", "i">>)
       \/ StartsWith(m, <<"m", "o", "d", "e", "l", "s", "/", "g", "e", "m", "m", "a">>)
    THEN [raised |-> FALSE, adapter |-> "gemini"]
    ELSE IF \/ StartsWith(m, <<"g", "p", "t", "-">>)
            \/ StartsWith(m, <<"t", "e", "x", "t", "-">>)
    THEN [raised |-> FALSE, adapter |-> "openai"]
    ELSE IF StartsWith(m, <<"c", "l", "a", "u", "d", "e">>)
    THEN [raised |-> FALSE, adapter |-> "anthropic"]
    ELSE Raise(<<"No adapter found for model: ", m>>)

(***************************************************************************)
(* Inputs                                                                  *)
(***************************************************************************)
Phrases ==
    <<
    \* "Describe a sunny day"
    <<"D", "e", "s", "c", "r", "i", "b", "e", " ", "a", " ", "s", "u", "n", "n", "y", " ", "d", "a", "y">>,
    \* "I will kill the process"
    <<"I", " ", "w", "i", "l", "l", " ", "k", "i", "l", "l", " ", "t", "h", "e", " ", "p", "r", "o", "c", "e", "s", "s">>,
    \* "Women should always be caretakers"
    <<"W", "o", "m", "e", "n", " ", "s", "h", "o", "u", "l", "d", " ", "a", "l", "w", "a", "y", "s", " ", "b", "e", " ", "c", "a", "r", "e", "t", "a", "k", "e", "r", "s">>,
    \* "A woman should always care"
    <<"A", " ", "w", "o", "m", "a", "n", " ", "s", "h", "o", "u", "l", "d", " ", "a", "l", "w", "a", "y", "s", " ", "c", "a", "r", "e">>,
    \* "attack and hate"
    <<"a", "t", "t", "a", "c", "k", " ", "a", "n", "d", " ", "h", "a", "t", "e">>,
    \* "Sharpen your SKILLS"
    <<"S", "h", "a", "r", "p", "e", "n", " ", "y", "o", "u", "r", " ", "S", "K", "I", "L", "L", "S">>,
    \* "share personal data to manipulate and influence"
    <<"s", "h", "a", "r", "e", " ", "p", "e", "r", "s", "o", "n", "a", "l", " ", "d", "a", "t", "a", " ", "t", "o", " ", "m", "a", "n", "i", "p", "u", "l", "a", "t", "e", " ", "a", "n", "d", " ", "i", "n", "f", "l", "u", "e", "n", "c", "e">>,
    \* "woman must race determines old can't poor deserves"
    <<"w", "o", "m", "a", "n", " ", "m", "u", "s", "t", " ", "r", "a", "c", "e", " ", "d", "e", "t", "e", "r", "m", "i", "n", "e", "s", " ", "o", "l", "d", " ", "c", "a", "n", "'", "t", " ", "p", "o", "o", "r", " ", "d", "e", "s", "e", "r", "v", "e", "s">>,
    \* "kill hate harm woman must race causes old can't poor earned manipulate"
    <<"k", "i", "l", "l", " ", "h", "a", "t", "e", " ", "h", "a", "r", "m", " ", "w", "o", "m", "a", "n", " ", "m", "u", "s", "t", " ", "r", "a", "c", "e", " ", "c", "a", "u", "s", "e", "s", " ", "o", "l", "d", " ", "c", "a", "n", "'", "t", " ", "p", "o", "o", "r", " ", "e", "a", "r", "n", "e", "d", " ", "m", "a", "n", "i", "p", "u", "l", "a", "t", "e">>,
    \* "personally influence them"
    <<"p", "e", "r", "s", "o", "n", "a", "l", "l", "y", " ", "i", "n", "f", "l", "u", "e", "n", "c", "e", " ", "t", "h", "e", "m">>,
    \* "hate kill hurt harm attack destroy stupid idiot moron worthless"
    <<"h", "a", "t", "e", " ", "k", "i", "l", "l", " ", "h", "u", "r", "t", " ", "h", "a", "r", "m", " ", "a", "t", "t", "a", "c", "k", " ", "d", "e", "s", "t", "r", "o", "y", " ", "s", "t", "u", "p", "i", "d", " ", "i", "d", "i", "o", "t", " ", "m", "o", "r", "o", "n", " ", "w", "o", "r", "t", "h", "l", "e", "s", "s">>
    >>

\* the greatest number of times a phrase is repeated in a prompt
MaxRepeat == 5

RECURSIVE Repeat(_, _, _)
Repeat(phrase, k, sep) ==
    IF k = 1 THEN phrase ELSE phrase \o sep \o Repeat(phrase, k - 1, sep)

Separators == {<<" ">>, <<"\n">>}

\* the texts: the empty one, and each phrase repeated on one or more lines
Texts ==
    {<<>>} \cup {Repeat(Phrases[i], k, sep) :
                    i \in 1..Len(Phrases), k \in 1..MaxRepeat, sep \in Separators}

\* what a caller can pass as prompt: a str, or by mistake None or an int
Prompts == {Str(t) : t \in Texts} \cup {None, [t |-> "int"]}

Level(name) == [t |-> "str", s |-> name]

\* what a caller can pass as safety_level: a name of the table, another
\* name, or by mistake a list
Levels ==
    {Level("strict"), Level("standard"), Level("permissive"), Level("custom"),
     [t |-> "list"]}

\* a context dict with both flags of _check_context_ethics set
BothFlags == Dict([k \in {"contains_personal_data", "sensitive_context"} |-> TRUE])

\* what a caller can pass as context: None, a dict, or by mistake a str as
\* the --context option of the command line is
Contexts == {None, BothFlags, Str(<<"c", "t", "x">>)}

\* a safety_levels table loaded from a YAML file: "strict" written as a
\* quoted string, "standard" raised, "permissive" letting everything pass
CustomSafetyLevels ==
    Dict([k \in {"strict", "standard", "permissive"} |->
            CASE k = "strict"     -> [t |-> "str"]
              [] k = "standard"   -> Float(F0_8)
              [] k = "permissive" -> Float(F0_0)])

Configs == {DefaultSafetyLevels, CustomSafetyLevels}

EnvKeys == {"GEMINI_API_KEY", "OPENAI_API_KEY", "ANTHROPIC_API_KEY"}

\* values of the --model option
Models ==
    {<<"a", "u", "t", "o">>,
     <<"m", "o", "d", "e", "l", "s", "/", "g", "e", "m", "i", "n", "i", "-", "p", "r", "o">>,
     <<"g", "p", "t", "-", "4">>,
     <<"c", "l", "a", "u", "d", "e", "-", "3">>}

(***************************************************************************)
(* State                                                                   *)
(***************************************************************************)
VARIABLES
    prompt,         \* the prompt handed to the checker and to process
    safety_levels,  \* self.config.safety.safety_levels of the SafetyChecker
    keep,           \* how many check_prompt calls the log shows
    pc,             \* "idle", or "running" while a check_prompt call is active
    args,           \* safety_level and context of the active call
    log,            \* the calls that returned, newest first: arguments, result
    tables,         \* the attributes __init__ gives the SafetyChecker
    frames,         \* the check_prompt calls that run concurrently: each
                    \* call's arguments, position and local variables
    env,            \* the API keys set in the environment
    safety,         \* the safety option of process
    model,          \* the model option of process
    p_pc,           \* where process is: "off", "start", "engine", "checked",
                    \* "processed", "exited"
    validated,      \* what the validate_prompt calls of process returned
    invoked,        \* the adapters whose generate was called, in order
    exit_code       \* the status process exited with: <<>> while it runs

checker_vars == <<safety_levels, keep, pc, args, log, tables, frames>>

process_vars == <<env, safety, model, p_pc, validated, invoked, exit_code>>

vars == <<prompt, safety_levels, keep, pc, args, log, tables, frames,
          env, safety, model, p_pc, validated, invoked, exit_code>>

\* what _initialize_safety_patterns and _initialize_bias_detectors assign
Attributes ==
    [harmful_patterns   |-> harmful_patterns,
     bias_indicators    |-> bias_indicators,
     ethical_violations |-> ethical_violations,
     bias_weights       |-> bias_weights,
     bias_mitigation    |-> bias_mitigation]

CheckerIdle ==
    /\ pc = "idle"
    /\ args = None
    /\ log = <<>>
    /\ tables = Attributes
    /\ frames = <<>>

ProcessOff ==
    /\ env = {}
    /\ safety = TRUE
    /\ model = <<>>
    /\ p_pc = "off"
    /\ validated = <<>>
    /\ invoked = <<>>
    /\ exit_code = <<>>

\* a SafetyChecker after __init__, about to check one prompt
InitChecker(prompts, configs, k) ==
    /\ prompt \in prompts
    /\ safety_levels \in configs
    /\ keep = k
    /\ CheckerIdle
    /\ ProcessOff

Init == InitChecker(Prompts, Configs, 1)

\* the prompts of the runs that compare two calls: no text, the empty text,
\* and three of the phrases once and MaxRepeat times
PairPrompts ==
    {Str(<<>>), None}
    \cup {Str(Repeat(Phrases[i], k, <<"\n">>)) : i \in {5, 7, 9}, k \in {1, MaxRepeat}}

\* as Init, with a log of two calls
InitPairs == InitChecker(PairPrompts, Configs, 2)

\* the command "process" is started with a prompt and its options
InitProcess ==
    /\ prompt \in {Str(t) : t \in Texts}
    /\ safety_levels = DefaultSafetyLevels
    /\ keep = 1
    /\ CheckerIdle
    /\ env \in SUBSET EnvKeys
    /\ safety \in BOOLEAN
    /\ model \in Models
    /\ p_pc = "start"
    /\ validated = <<>>
    /\ invoked = <<>>
    /\ exit_code = <<>>

(***************************************************************************)
(* Actions of the checker                                                  *)
(***************************************************************************)
\* a caller invokes check_prompt(prompt, safety_level, context)
Call(safety_level, context) ==
    /\ pc = "idle"
    /\ pc' = "running"
    /\ args' = [safety_level |-> safety_level, context |-> context]
    /\ log' = SubSeq(log, 1, MinOf(Len(log), keep - 1))
    /\ UNCHANGED <<prompt, safety_levels, keep, tables, frames>>
    /\ UNCHANGED process_vars

\* check_prompt, were detected_issues a list of the instance that the calls
\* append to and none clears
ReturnKeepingIssues ==
    /\ pc = "running"
    /\ \E r \in {CheckPrompt(safety_levels, prompt, args.safety_level, args.context)} :
            log' = <<[prompt       |-> prompt,
                      safety_level |-> args.safety_level,
                      context      |-> args.context,
                      result       |->
                          [r.result EXCEPT !.detected_issues =
                              (IF log = <<>> THEN <<>>
                               ELSE log[1].result.detected_issues) \o @],
                      failed       |-> r.failed,
                      analyses     |-> r.analyses]>> \o log
    /\ pc' = "idle"
    /\ args' = None
    /\ UNCHANGED <<prompt, safety_levels, keep, tables, frames>>
    /\ UNCHANGED process_vars

\* check_prompt runs to its return statement; it has no point of suspension
Return ==
    /\ pc = "running"
    /\ \E r \in {CheckPrompt(safety_levels, prompt, args.safety_level, args.context)} :
            log' = <<[prompt       |-> prompt,
                      safety_level |-> args.safety_level,
                      context      |-> args.context,
                      result       |-> r.result,
                      failed       |-> r.failed,
                      analyses     |-> r.analyses]>> \o log
    /\ pc' = "idle"
    /\ args' = None
    /\ UNCHANGED <<prompt, safety_levels, keep, tables, frames>>
    /\ UNCHANGED process_vars

Next ==
    \/ \E l \in Levels, c \in Contexts : Call(l, c)
    \/ Return

Spec == Init /\ [][Next]_vars

SpecPairs == InitPairs /\ [][Next]_vars

(***************************************************************************)
(* A caller that checks a prompt, adds words to it and checks it again     *)
(***************************************************************************)
\* the most words of GrowWords a prompt is grown to
MaxOccurrences == 6

\* the words the caller adds, in the order it adds them: "attack", "hate"
GrowWordSeq == <<<<"a", "t", "t", "a", "c", "k">>, <<"h", "a", "t", "e">>>>

GrowWords == Range(GrowWordSeq)

\* how many words of the text are words of GrowWords
Occurrences(text) ==
    Cardinality({k \in 1..Len(Index(text).words) : Index(text).words[k] \in GrowWords})

\* str.endswith
EndsWith(s, suffix) ==
    Len(suffix) <= Len(s) /\ SubSeq(s, Len(s) - Len(suffix) + 1, Len(s)) = suffix

\* the caller appends a further occurrence of the k-th word to the prompt,
\* between two calls of check_prompt; it adds the occurrences of one word
\* before those of the next
Extend(k) ==
    /\ pc = "idle"
    /\ prompt.t = "str"
    /\ Occurrences(prompt.s) < MaxOccurrences
    /\ \A j \in (k + 1)..Len(GrowWordSeq) : ~EndsWith(prompt.s, GrowWordSeq[j])
    /\ prompt' = Str(prompt.s \o <<" ">> \o GrowWordSeq[k])
    /\ UNCHANGED checker_vars
    /\ UNCHANGED process_vars

\* a neutral text or "attack and hate", the default table, a log of three
InitGrow == InitChecker({Str(Phrases[1]), Str(Phrases[5])}, {DefaultSafetyLevels}, 3)

\* the caller checks a prompt once, grows it, and checks what it has grown
NextGrow ==
    \/ /\ IF log = <<>> THEN TRUE ELSE log[1].prompt # prompt
       /\ Call(Level("standard"), None)
    \/ Return
    \/ \E k \in DOMAIN GrowWordSeq : Extend(k)

SpecGrow == InitGrow /\ [][NextGrow]_vars

(***************************************************************************)
(* check_prompt step by step: several calls on one SafetyChecker, each     *)
(* with a frame of its own                                                 *)
(***************************************************************************)
\* the most calls that run at a time
MaxCalls == 2

\* the four analyzers in the order check_prompt awaits them
Analyzers == <<"content", "bias", "ethical", "toxicity">>

\* what analyzer a returns, were the toxicity score never taken below the
\* content score that another analyzer left in the frame
RunAnalyzerChained(a, frame) ==
    CASE a = "content"  -> AnalyzeContent(frame.prompt)
      [] a = "bias"     -> DetectBias(frame.prompt)
      [] a = "ethical"  -> CheckEthicalAlignment(frame.prompt, frame.context)
      [] a = "toxicity" ->
            With(AssessToxicity(frame.prompt), LAMBDA r :
                IF r.raised \/ "content" \notin DOMAIN frame.results THEN r
                ELSE [r EXCEPT !.toxicity_score =
                         FMax(@, frame.results["content"].overall_content_score)])

\* what analyzer a returns for the arguments of a frame
RunAnalyzer(a, frame) ==
    CASE a = "content"  -> AnalyzeContent(frame.prompt)
      [] a = "bias"     -> DetectBias(frame.prompt)
      [] a = "ethical"  -> CheckEthicalAlignment(frame.prompt, frame.context)
      [] a = "toxicity" -> AssessToxicity(frame.prompt)

\* the frame of a call that left check_prompt through the except branch
Failed(frame, e) == [frame EXCEPT !.pc = "done", !.verdict = <<FailClosed(e)>>]

\* check_prompt is entered and looks the threshold up; order is "code" for
\* the analyzers awaited one after the other as the code has them, "any"
\* for the analyzers run as four tasks that complete in any order
Start(limit, p, safety_level, context, order) ==
    /\ Len(frames) < limit
    /\ frames' =
         Append(frames,
                With(GetThreshold(safety_levels, safety_level), LAMBDA threshold :
                    With([pc |-> "analyze", prompt |-> p, safety_level |-> safety_level,
                          context |-> context, order |-> order, threshold |-> None,
                          results |-> <<>>, ran |-> <<>>, verdict |-> <<>>],
                         LAMBDA frame :
                        IF threshold.raised THEN Failed(frame, threshold.err)
                        ELSE [frame EXCEPT !.threshold = threshold.value])))
    /\ UNCHANGED <<prompt, safety_levels, keep, pc, args, log, tables>>
    /\ UNCHANGED process_vars

\* the frames, were the result of an analyzer stored in an attribute of the
\* instance, which the calls that run share
StoreResultOnInstance(c, a, r) ==
    [d \in DOMAIN frames |->
        IF r.raised
        THEN (IF d = c THEN Failed(frames[d], r.err) ELSE frames[d])
        ELSE IF frames[d].pc = "analyze"
        THEN [frames[d] EXCEPT !.results = (a :> r) @@ @,
                               !.ran = IF d = c THEN Append(@, a) ELSE @]
        ELSE frames[d]]

\* the frames after call c assigned what analyzer a returned to its local
\* variable, or left through the except branch
StoreResult(c, a, r) ==
    [frames EXCEPT ![c] = IF r.raised THEN Failed(@, r.err)
                          ELSE [@ EXCEPT !.results = (a :> r) @@ @,
                                         !.ran = Append(@, a)]]

\* analyzer a of call c, were _detect_bias to even the weights out in place
\* (self.bias_weights[bias_type] = 0.25) before it uses them
AnalyzeReweighting(c, a) ==
    /\ frames[c].pc = "analyze"
    /\ a \notin DOMAIN frames[c].results
    /\ IF frames[c].order = "code"
       THEN \A k \in DOMAIN Analyzers :
                Analyzers[k] = a => \A j \in 1..(k - 1) : Analyzers[j] \in DOMAIN frames[c].results
       ELSE TRUE
    /\ frames' = StoreResult(c, a, RunAnalyzer(a, frames[c]))
    /\ tables' = IF a = "bias"
                 THEN [tables EXCEPT !.bias_weights = [k \in DOMAIN @ |-> F0_25]]
                 ELSE tables
    /\ UNCHANGED <<prompt, safety_levels, keep, pc, args, log>>
    /\ UNCHANGED process_vars

\* analyzer a of call c runs to its end; ran keeps the order in which the
\* analyzers of the call ended
Analyze(c, a) ==
    /\ frames[c].pc = "analyze"
    /\ a \notin DOMAIN frames[c].results
    /\ IF frames[c].order = "code"
       THEN \A k \in DOMAIN Analyzers :
                Analyzers[k] = a => \A j \in 1..(k - 1) : Analyzers[j] \in DOMAIN frames[c].results
       ELSE TRUE
    /\ frames' = StoreResult(c, a, RunAnalyzer(a, frames[c]))
    /\ UNCHANGED <<prompt, safety_levels, keep, pc, args, log, tables>>
    /\ UNCHANGED process_vars

\* the rest of check_prompt, from the safety score to the SafetyResult
Combine(frame) ==
    With(CalculateSafetyScore(frame.results["content"], frame.results["bias"],
                              frame.results["ethical"], frame.results["toxicity"]),
         LAMBDA safety_score :
    With(ScoreMeets(safety_score, frame.threshold), LAMBDA is_safe :
    IF is_safe.raised THEN FailClosed(is_safe.err) ELSE
        [is_safe            |-> is_safe.value,
         safety_score       |-> safety_score,
         risk_level         |-> DetermineRiskLevel(safety_score),
         detected_issues    |-> frame.results["content"].issues
                                \o frame.results["bias"].issues
                                \o frame.results["ethical"].violations,
         bias_score         |-> frame.results["bias"].bias_score,
         toxicity_score     |-> frame.results["toxicity"].toxicity_score,
         ethical_violations |-> frame.results["ethical"].violations,
         recommendations    |->
             GenerateRecommendations(frame.results["content"], frame.results["bias"],
                                     frame.results["ethical"], frame.results["toxicity"]),
         reason             |-> IF is_safe.value THEN None
                                ELSE <<"Safety threshold not met">>]))

\* call c has its four analyses, combines them and returns
Finish(c) ==
    /\ frames[c].pc = "analyze"
    /\ DOMAIN frames[c].results = Range(Analyzers)
    /\ frames' = [frames EXCEPT ![c] = [@ EXCEPT !.pc = "done",
                                                 !.verdict = <<Combine(frames[c])>>]]
    /\ UNCHANGED <<prompt, safety_levels, keep, pc, args, log, tables>>
    /\ UNCHANGED process_vars

\* the arguments of the calls that run concurrently
CallArguments ==
    {[prompt |-> Str(Phrases[5]), context |-> None],
     [prompt |-> Str(Phrases[7]), context |-> BothFlags],
     [prompt |-> None,            context |-> None]}

\* a SafetyChecker after __init__, no call running
InitFrames == InitChecker({None}, Configs, 1)

NextConcurrent ==
    \/ \E x \in CallArguments :
           Start(MaxCalls, x.prompt, Level("strict"), x.context, "code")
    \/ \E c \in DOMAIN frames, k \in DOMAIN Analyzers : Analyze(c, Analyzers[k])
    \/ \E c \in DOMAIN frames : Finish(c)

SpecConcurrent == InitFrames /\ [][NextConcurrent]_vars

\* one call whose analyzers complete in any order
NextAnyOrder ==
    \/ \E p \in {Str(Phrases[5]), Str(Phrases[7]), Str(Phrases[9]), None},
          l \in Levels, c \in Contexts :
           Start(1, p, l, c, "any")
    \/ \E c \in DOMAIN frames, k \in DOMAIN Analyzers : Analyze(c, Analyzers[k])
    \/ \E c \in DOMAIN frames : Finish(c)

SpecAnyOrder == InitFrames /\ [][NextAnyOrder]_vars

(***************************************************************************)
(* Calls that differ in the context                                        *)
(***************************************************************************)
\* texts for the substring tests of _check_context_ethics
ContextPhrases ==
    <<
    \* "a PRIVATE note"
    <<"a", " ", "P", "R", "I", "V", "A", "T", "E", " ", "n", "o", "t", "e">>,
    \* "Influence people"
    <<"I", "n", "f", "l", "u", "e", "n", "c", "e", " ", "p", "e", "o", "p", "l", "e">>,
    \* "impersonality"
    <<"i", "m", "p", "e", "r", "s", "o", "n", "a", "l", "i", "t", "y">>
    >>

\* the context dicts with any of the two flags of _check_context_ethics,
\* set or unset; the empty dict is among them
FlagContexts ==
    {Dict(d) : d \in UNION {[keys -> BOOLEAN] :
                               keys \in SUBSET {"contains_personal_data", "sensitive_context"}}}

\* a SafetyChecker whose log keeps two calls, and a prompt with or without
\* the words _check_context_ethics looks for
InitContexts ==
    InitChecker({Str(t) : t \in Range(ContextPhrases)}
                    \cup {Str(Phrases[i]) : i \in {1, 7, 9, 10}}
                    \cup {Str(Repeat(Phrases[7], 2, <<"\n">>))},
                {DefaultSafetyLevels}, 2)

NextContexts ==
    \/ \E l \in {Level("strict"), Level("standard")}, c \in {None} \cup FlagContexts :
           Call(l, c)
    \/ Return

SpecContexts == InitContexts /\ [][NextContexts]_vars

(***************************************************************************)
(* Calls on texts that one analyzer alone finds fault with                 *)
(***************************************************************************)
\* texts with matches of one analyzer only
SinglePhrases ==
    <<
    \* "bomb": a pattern of harmful_patterns
    <<"b", "o", "m", "b">>,
    \* "stupid idiot moron": toxic words
    <<"s", "t", "u", "p", "i", "d", " ", "i", "d", "i", "o", "t", " ", "m", "o", "r", "o", "n">>,
    \* "track him without consent": a pattern of ethical_violations
    <<"t", "r", "a", "c", "k", " ", "h", "i", "m", " ", "w", "i", "t", "h", "o", "u", "t", " ", "c", "o", "n", "s", "e", "n", "t">>
    >>

\* a SafetyChecker with the default thresholds and a prompt of one to
\* MaxRepeat lines: a text of SinglePhrases, the bias text, or "attack and
\* hate", which two analyzers find fault with
InitSingle ==
    InitChecker({Str(Repeat(t, k, <<"\n">>)) :
                    t \in Range(SinglePhrases) \cup {Phrases[5], Phrases[8]},
                    k \in 1..MaxRepeat},
                {DefaultSafetyLevels}, 1)

SpecSingle == InitSingle /\ [][Next]_vars

(***************************************************************************)
(* Actions of process (main.py)                                            *)
(***************************************************************************)
\* engine = MetaPromptEngine(), were the adapters built when a model first
\* asks for one and not in __init__: the construction never fails
ConstructEngineLazily ==
    /\ p_pc = "start"
    /\ p_pc' = "engine"
    /\ UNCHANGED <<prompt, checker_vars, env, safety, model, validated, invoked, exit_code>>

\* engine = MetaPromptEngine(); a failure is caught by "except Exception",
\* which prints the error and exits with status 1
ConstructEngine ==
    /\ p_pc = "start"
    /\ IF NewEngine(env).raised
       THEN p_pc' = "exited" /\ exit_code' = <<1>>
       ELSE p_pc' = "engine" /\ exit_code' = exit_code
    /\ UNCHANGED <<prompt, checker_vars, env, safety, model, validated, invoked>>

\* the safety check, were the sys.exit(1) after the message left out
SafetyCheckWarnOnly ==
    /\ p_pc = "engine"
    /\ validated' = IF safety THEN <<ValidatePrompt(prompt)>> ELSE validated
    /\ p_pc' = "checked"
    /\ UNCHANGED <<prompt, checker_vars, env, safety, model, invoked, exit_code>>

\* if safety: validate_prompt(prompt), and sys.exit(1) when it is False
SafetyCheck ==
    /\ p_pc = "engine"
    /\ IF safety
       THEN /\ validated' = <<ValidatePrompt(prompt)>>
            /\ IF validated'[1]
               THEN p_pc' = "checked" /\ exit_code' = exit_code
               ELSE p_pc' = "exited" /\ exit_code' = <<1>>
       ELSE /\ validated' = validated
            /\ p_pc' = "checked"
            /\ exit_code' = exit_code
    /\ UNCHANGED <<prompt, checker_vars, env, safety, model, invoked>>

\* asyncio.run(engine.process_prompt(prompt, model, context)): the adapter
\* of the model generates, or _get_adapter raises and process exits
ProcessPrompt ==
    /\ p_pc = "checked"
    /\ LET a == GetAdapter(model)
       IN  IF a.raised
           THEN /\ p_pc' = "exited"
                /\ exit_code' = <<1>>
                /\ invoked' = invoked
           ELSE /\ p_pc' = "processed"
                /\ exit_code' = exit_code
                /\ invoked' = Append(invoked, [adapter |-> a.adapter, prompt |-> prompt])
    /\ UNCHANGED <<prompt, checker_vars, env, safety, model, validated>>

\* display_results(result): the Result object has no method get, the
\* AttributeError is caught and process exits with status 1
DisplayResults ==
    /\ p_pc = "processed"
    /\ p_pc' = "exited"
    /\ exit_code' = <<1>>
    /\ UNCHANGED <<prompt, checker_vars, env, safety, model, validated, invoked>>

NextProcess ==
    \/ ConstructEngine
    \/ SafetyCheck
    \/ ProcessPrompt
    \/ DisplayResults

SpecProcess == InitProcess /\ [][NextProcess]_vars


(***************************************************************************)
(* Properties of check_prompt                                              *)
(***************************************************************************)
\* a float within [0.0, 1.0]
InUnit(f) == FGe(f, F0_0) /\ FLe(f, F1_0)

\* the threshold the configuration gives a level name, 0.7 for a name it
\* does not hold
ThresholdFor(safety_level) ==
    IF safety_level.t = "str" /\ safety_level.s \in DOMAIN safety_levels.d
    THEN safety_levels.d[safety_level.s]
    ELSE Float(F0_7)

\* a step of check_prompt raises on these arguments: the level is
\* unhashable, the prompt is no str, a truthy context is no dict, or the
\* threshold of the level is no number
StepFails(rec) ==
    \/ rec.safety_level.t = "list"
    \/ prompt.t # "str"
    \/ Truthy(rec.context) /\ rec.context.t # "dict"
    \/ ThresholdFor(rec.safety_level).t # "float"

\* C1, as stated: for every prompt, level and context the verdict has
\* is_safe = true exactly when its safety_score >= the threshold resolved
\* for the level (the configured value, or 0.7 for an absent name)
C1_SafeIffScoreMeetsThreshold ==
    \A i \in DOMAIN log :
        LET rec == log[i]
            th  == ThresholdFor(rec.safety_level)
        IN  (rec.safety_level.t = "str" /\ th.t = "float")
            => (rec.result.is_safe <=> FGe(rec.result.safety_score, th.v))

\* C1, amended: is_safe = true exactly when no step of the check failed and
\* the safety_score >= the threshold resolved for the level; the verdict of
\* a failed check has is_safe = false and safety_score 0.0 whatever the
\* threshold is, a threshold of 0.0 included
C1_SafeIffCompletedAndScoreMeetsThreshold ==
    \A i \in DOMAIN log :
        LET rec == log[i]
            th  == ThresholdFor(rec.safety_level)
        IN  rec.result.is_safe
            <=> /\ rec.result.risk_level # "unknown"
                /\ th.t = "float"
                /\ FGe(rec.result.safety_score, th.v)

\* a completed check whose score is exactly the threshold of a configured
\* level, and which is safe
C1_Witness ==
    /\ log # <<>>
    /\ log[1].failed = "none"
    /\ log[1].safety_level.s \in DOMAIN safety_levels.d
    /\ log[1].result.safety_score = ThresholdFor(log[1].safety_level).v
    /\ log[1].result.is_safe

\* C2: whenever a step of check_prompt fails, at any safety level, the call
\* returns the fail-closed verdict: is_safe false, safety_score 0.0,
\* risk_level "unknown", bias_score 1.0, toxicity_score 1.0, the issue
\* "Safety check error", the violation "Safety system failure", the
\* recommendation "Contact system administrator", and a reason that carries
\* the detail of the failure
C2_FailureReturnsFailClosed ==
    \A i \in DOMAIN log :
        LET rec == log[i]
            r   == rec.result
        IN  (StepFails(rec) \/ rec.failed # "none")
            => /\ r.is_safe = FALSE
               /\ r.safety_score = F0_0
               /\ r.risk_level = "unknown"
               /\ r.bias_score = F1_0
               /\ r.toxicity_score = F1_0
               /\ r.detected_issues = <<"Safety check error">>
               /\ r.ethical_violations = <<"Safety system failure">>
               /\ r.recommendations = <<"Contact system administrator">>
               /\ Len(r.reason) = 2
               /\ r.reason[1] = "Safety check error: "
               /\ r.reason[2] # <<>>

\* the ethics check of a str prompt raised on a context that is no dict,
\* after the content and bias analyzers had completed, at level "permissive"
C2_Witness ==
    /\ log # <<>>
    /\ log[1].failed = "ethical"
    /\ log[1].safety_level = Level("permissive")
    /\ log[1].result.risk_level = "unknown"

\* C3: every score is a number in [0.0, 1.0]: each category's content, bias
\* and ethical score and the toxicity score (clamped with min(., 1.0)), the
\* aggregate bias score, and the final safety score (clamped to [0, 1])
C3_ScoresInUnitInterval ==
    \A i \in DOMAIN log :
        LET rec == log[i]
            a   == rec.analyses
        IN  /\ InUnit(rec.result.safety_score)
            /\ InUnit(rec.result.bias_score)
            /\ InUnit(rec.result.toxicity_score)
            /\ rec.failed = "none" =>
                /\ \A n \in DOMAIN a.content.content_scores :
                       InUnit(a.content.content_scores[n])
                /\ \A n \in DOMAIN a.bias.bias_scores : InUnit(a.bias.bias_scores[n])
                /\ \A n \in DOMAIN a.ethical.ethical_scores :
                       InUnit(a.ethical.ethical_scores[n])
                /\ InUnit(a.content.overall_content_score)
                /\ InUnit(a.ethical.overall_ethical_score)
                /\ InUnit(a.toxicity.toxicity_score)
                /\ InUnit(a.bias.bias_score)

\* a completed check in which the clamps acted: more than five matches of
\* 0.2 each in the content category "violence", whose score is 1.0, bias
\* and toxicity scores of 1.0 and a safety score of 0.0
C3_Witness ==
    /\ log # <<>>
    /\ log[1].failed = "none"
    /\ Len(log[1].analyses.content.issues) >= 2
    /\ log[1].analyses.content.issues[1][2] = "violence"
    /\ log[1].analyses.content.issues[2][2] = "violence"
    /\ Len(log[1].analyses.content.issues[1][4])
         + Len(log[1].analyses.content.issues[2][4]) > 5
    /\ log[1].analyses.content.content_scores["violence"] = F1_0
    /\ log[1].analyses.bias.bias_scores["gender_bias"] = F1_0
    /\ log[1].analyses.toxicity.toxicity_score = F1_0
    /\ log[1].result.bias_score = F1_0
    /\ log[1].result.safety_score = F0_0

\* the two calls of a log of two had the same context
SameContext == Len(log) = 2 /\ log[1].context = log[2].context

DefaultLevelNames == {"strict", "standard", "permissive"}

\* C4: for a fixed prompt and context, under the default thresholds, a
\* prompt safe at "strict" is safe at "standard" and a prompt safe at
\* "standard" is safe at "permissive", and the calls at the three levels
\* return the same safety_score and risk_level
C4_StricterLevelImpliesLooser ==
    (safety_levels = DefaultSafetyLevels /\ SameContext) =>
        \A i, j \in DOMAIN log :
            LET a == log[i]
                b == log[j]
            IN  (a.safety_level.t = "str" /\ b.safety_level.t = "str"
                 /\ a.safety_level.s \in DefaultLevelNames
                 /\ b.safety_level.s \in DefaultLevelNames) =>
                    /\ a.result.safety_score = b.result.safety_score
                    /\ a.result.risk_level = b.result.risk_level
                    /\ (a.safety_level.s = "strict" /\ b.safety_level.s = "standard"
                        /\ a.result.is_safe) => b.result.is_safe
                    /\ (a.safety_level.s = "standard" /\ b.safety_level.s = "permissive"
                        /\ a.result.is_safe) => b.result.is_safe
                    /\ (a.safety_level.s = "strict" /\ b.safety_level.s = "permissive"
                        /\ a.result.is_safe) => b.result.is_safe

\* a prompt with matches, found safe at "strict" and then checked at
\* "standard" with the same context
C4_Witness ==
    /\ safety_levels = DefaultSafetyLevels
    /\ SameContext
    /\ log[2].safety_level = Level("strict")
    /\ log[2].result.is_safe
    /\ FLt(log[2].result.safety_score, F1_0)
    /\ log[1].safety_level = Level("standard")
    /\ log[1].result.is_safe

\* C5: a call with a level name that is no key of the configured table
\* raises no error and uses the threshold 0.7; under the default
\* configuration its verdict equals that of the same call at "standard"
C5_UnknownLevelIsStandard ==
    \A i \in DOMAIN log :
        LET a == log[i]
        IN  (a.safety_level.t = "str" /\ a.safety_level.s \notin DOMAIN safety_levels.d) =>
                /\ a.failed # "threshold"
                /\ a.failed = "none" =>
                       (a.result.is_safe <=> FGe(a.result.safety_score, F0_7))
                /\ (safety_levels = DefaultSafetyLevels /\ SameContext) =>
                       \A j \in DOMAIN log :
                           log[j].safety_level = Level("standard") =>
                               a.result = log[j].result

\* a prompt whose score lies between 0.5 and 0.7, checked at "standard"
\* and then at the level name "custom", which the table does not hold
C5_Witness ==
    /\ safety_levels = DefaultSafetyLevels
    /\ SameContext
    /\ log[2].safety_level = Level("standard")
    /\ log[1].safety_level = Level("custom")
    /\ log[1].failed = "none"
    /\ FGe(log[1].result.safety_score, F0_5)
    /\ FLt(log[1].result.safety_score, F0_7)
    /\ ~log[1].result.is_safe

\* no pattern of the three tables and no toxic word matched the prompt of
\* a completed check
NoMatch(rec) ==
    /\ rec.analyses.content.issues = <<>>
    /\ rec.analyses.bias.issues = <<>>
    /\ \A n \in DOMAIN rec.analyses.ethical.ethical_scores :
           rec.analyses.ethical.ethical_scores[n] = F0_0
    /\ rec.analyses.toxicity.toxic_instances = <<>>

\* the arguments of a call are of the declared types: a str prompt, a str
\* level, a context that is None or a dict
WellTyped(rec) ==
    /\ prompt.t = "str"
    /\ rec.safety_level.t = "str"
    /\ rec.context.t \in {"NoneType", "dict"}

\* the violations _check_context_ethics derives from the context flags
ContextViolations ==
    {"Potential privacy violation in context",
     "Potential manipulation in sensitive context"}

DenyList ==
    {<<"k", "i", "l", "l">>, <<"h", "a", "t", "e">>, <<"h", "a", "r", "m">>,
     <<"a", "t", "t", "a", "c", "k">>, <<"d", "e", "s", "t", "r", "o", "y">>}

\* word w stands in text s at some position, inside a longer word or not
HasSubstring(s, w) ==
    \E i \in 1..Len(s) :
        i + Len(w) - 1 <= Len(s) /\ SubSeq(s, i, i + Len(w) - 1) = w

\* C8: validate_prompt returns false exactly when the lower-cased prompt
\* holds one of kill, hate, harm, attack, destroy as a substring, a part
\* of a longer word included, and true otherwise; it is false for "I will
\* kill the process" and true for "Describe a sunny day"
C8_ValidatePromptIsSubstringScreen ==
    validated # <<>> =>
        /\ validated = <<FALSE>> <=> \E w \in DenyList : HasSubstring(Lower(prompt.s), w)
        /\ validated \in {<<FALSE>>, <<TRUE>>}
        /\ prompt = Str(Phrases[2]) => validated = <<FALSE>>
        /\ prompt = Str(Phrases[1]) => validated = <<TRUE>>

\* validate_prompt returned false for "Sharpen your SKILLS", which holds
\* "kill" in upper case inside a longer word
C8_Witness ==
    /\ prompt = Str(Phrases[6])
    /\ validated = <<FALSE>>

\* C9, as stated: when validate_prompt returns false the request is aborted
\* and no adapter is ever invoked for it; an adapter is invoked only after
\* validate_prompt has returned true for the prompt
C9_ProviderOnlyAfterValidation ==
    /\ validated = <<FALSE>> => (invoked = <<>> /\ p_pc = "exited" /\ exit_code = <<1>>)
    /\ invoked # <<>> => validated = <<TRUE>>

\* C9, amended: when validate_prompt returns false the request is aborted
\* and no adapter is ever invoked for it; with the safety option on, an
\* adapter is invoked only after validate_prompt has returned true for the
\* prompt; with the option off validate_prompt is not called and the
\* adapter is invoked on the unchecked prompt
C9_ProviderOnlyAfterValidationWhenSafetyOn ==
    /\ validated = <<FALSE>> => (invoked = <<>> /\ p_pc = "exited" /\ exit_code = <<1>>)
    /\ invoked # <<>> => (validated = IF safety THEN <<TRUE>> ELSE <<>>)
    /\ validated # <<>> => safety

\* process with the safety option on was stopped by validate_prompt on a
\* model that has an adapter: the process exited and no adapter was invoked
C9_Witness ==
    /\ safety
    /\ validated = <<FALSE>>
    /\ ~GetAdapter(model).raised
    /\ p_pc = "exited"
    /\ exit_code = <<1>>
    /\ invoked = <<>>

(***************************************************************************)
(* Properties of the bias detector                                         *)
(***************************************************************************)
\* C10: check_prompt on "Women should always be caretakers" triggers the
\* gender-bias pattern: the gender_bias score and the verdict's bias_score
\* are > 0 and the recommendations hold "Address gender_bias: Use
\* gender-neutral language and avoid stereotypes"
C10_WomenTriggersGenderBias ==
    \A i \in DOMAIN log :
        (prompt = Str(Phrases[3]) /\ log[i].failed = "none") =>
            /\ FGt(log[i].analyses.bias.bias_scores["gender_bias"], F0_0)
            /\ FGt(log[i].result.bias_score, F0_0)
            /\ \E k \in DOMAIN log[i].result.recommendations :
                   log[i].result.recommendations[k]
                       = <<"Address ", "gender_bias", ": ",
                           "Use gender-neutral language and avoid stereotypes">>


(***************************************************************************)
(* Properties of the scores                                                *)
(***************************************************************************)
\* the place of a risk level on the scale from "low" to "critical"
RiskRank(risk_level) ==
    CASE risk_level = "low"      -> 1
      [] risk_level = "medium"   -> 2
      [] risk_level = "high"     -> 3
      [] risk_level = "critical" -> 4

\* w is a whole word of the lower-cased text
WholeWord(text, w) == w \in Range(Index(Lower(text)).words)

\* the prompt of a call holds the whole words "attack" and "hate"
AttackAndHate(rec) ==
    /\ rec.prompt.t = "str"
    /\ \A w \in GrowWords : WholeWord(rec.prompt.s, w)

\* C11: a prompt with the whole words "attack" and "hate" has an overall
\* content score and a toxicity score above 0 and a safety_score below that
\* of a text without matches; and of two checks of a prompt that grows by
\* further occurrences of the words, the later has no higher safety_score
\* and no risk_level nearer to "low"
C11_MoreOccurrencesNeverSafer ==
    \A i, j \in DOMAIN log :
        LET later   == log[i]
            earlier == log[j]
        IN  /\ AttackAndHate(later) =>
                  /\ FGt(later.analyses.content.overall_content_score, F0_0)
                  /\ FGt(later.analyses.toxicity.toxicity_score, F0_0)
                  /\ NoMatch(earlier) =>
                         FLt(later.result.safety_score, earlier.result.safety_score)
            /\ i < j =>
                  /\ FLe(later.result.safety_score, earlier.result.safety_score)
                  /\ RiskRank(later.result.risk_level)
                         >= RiskRank(earlier.result.risk_level)

\* three checks of "attack and hate" as it grows: "low", then "medium",
\* then "high"
C11_Witness ==
    /\ Len(log) = 3
    /\ AttackAndHate(log[3])
    /\ log[3].result.risk_level = "low"
    /\ log[2].result.risk_level = "medium"
    /\ log[1].result.risk_level = "high"
    /\ Occurrences(log[1].prompt.s) > Occurrences(log[2].prompt.s)
    /\ Occurrences(log[2].prompt.s) > Occurrences(log[3].prompt.s)

\* a float within [0.0, 1.0] as the natural number f * 2^120
Scaled(f) == IF f.m = <<>> THEN <<>> ELSE BShl(f.m, f.e + 120)

\* |x - y| of two natural numbers
BDist(x, y) == IF BCmp(x, y) = -1 THEN BSub(y, x) ELSE BSub(x, y)

\* 100 * 2^120 times the exact value of
\* 0.3*(1-c) + 0.25*(1-b) + 0.25*(1-e) + 0.2*(1-t), for c, b, e, t in [0, 1]
ExactWeightedSum(c, b, e, t) ==
    BAdd(BAdd(BMul(BSub(Scaled(F1_0), Scaled(c)), BFromInt(30)),
              BMul(BSub(Scaled(F1_0), Scaled(b)), BFromInt(25))),
         BAdd(BMul(BSub(Scaled(F1_0), Scaled(e)), BFromInt(25)),
              BMul(BSub(Scaled(F1_0), Scaled(t)), BFromInt(20))))

\* C12: the safety score of a completed check is the weighted sum
\* 0.3*(1-c) + 0.25*(1-b) + 0.25*(1-e) + 0.2*(1-t) of the four analyzer
\* scores, within [0, 1] and within 2^-50 of the exact value of the sum as
\* binary64 arithmetic allows; it is 1.0 exactly when the four scores are
\* 0.0, and 0.0 exactly when the four are 1.0
C12_ScoreIsWeightedSum ==
    \A i \in DOMAIN log :
        log[i].failed = "none" =>
            LET c == log[i].analyses.content.overall_content_score
                b == log[i].analyses.bias.bias_score
                e == log[i].analyses.ethical.overall_ethical_score
                t == log[i].analyses.toxicity.toxicity_score
                score == log[i].result.safety_score
            IN  /\ InUnit(c) /\ InUnit(b) /\ InUnit(e) /\ InUnit(t) /\ InUnit(score)
                /\ BCmp(BDist(BMul(Scaled(score), BFromInt(100)),
                               ExactWeightedSum(c, b, e, t)),
                        BShl(BFromInt(100), 70)) = -1
                /\ score = F1_0 <=> (c = F0_0 /\ b = F0_0 /\ e = F0_0 /\ t = F0_0)
                /\ score = F0_0 <=> (c = F1_0 /\ b = F1_0 /\ e = F1_0 /\ t = F1_0)

\* a completed check whose four analyzer scores are all above 0.0 and
\* differ, with a safety score strictly between 0.0 and 1.0
C12_Witness ==
    /\ Len(log) = 1
    /\ log[1].failed = "none"
    /\ FGt(log[1].analyses.content.overall_content_score, F0_0)
    /\ FGt(log[1].analyses.bias.bias_score, F0_0)
    /\ FGt(log[1].analyses.ethical.overall_ethical_score, F0_0)
    /\ FGt(log[1].analyses.toxicity.toxicity_score, F0_0)
    /\ log[1].analyses.bias.bias_score # log[1].analyses.toxicity.toxicity_score
    /\ FGt(log[1].result.safety_score, F0_0)
    /\ FLt(log[1].result.safety_score, F1_0)

\* C13: the risk level of a completed check is "low" for a score >= 0.8,
\* "medium" for 0.6 <= score < 0.8, "high" for 0.4 <= score < 0.6 and
\* "critical" for a score < 0.4; a verdict has the level "unknown" exactly
\* when it is the fail-closed verdict of a check that did not complete
C13_RiskLevelByCutOffs ==
    \A i \in DOMAIN log :
        LET score == log[i].result.safety_score
            level == log[i].result.risk_level
        IN  /\ level = "unknown" <=> log[i].failed # "none"
            /\ log[i].failed = "none" =>
                  /\ level \in {"low", "medium", "high", "critical"}
                  /\ level = "low" <=> FGe(score, F0_8)
                  /\ level = "medium" <=> (FGe(score, F0_6) /\ FLt(score, F0_8))
                  /\ level = "high" <=> (FGe(score, F0_4) /\ FLt(score, F0_6))
                  /\ level = "critical" <=> FLt(score, F0_4)

\* a completed check whose score is the cut-off 0.6 itself, and "medium"
C13_Witness ==
    /\ Len(log) = 1
    /\ log[1].failed = "none"
    /\ log[1].result.safety_score = F0_6
    /\ log[1].result.risk_level = "medium"


(***************************************************************************)
(* Properties of concurrent calls                                          *)
(***************************************************************************)
\* the verdict check_prompt returns for the arguments of a frame when the
\* call runs alone on the SafetyChecker
Alone(frame) ==
    CheckPrompt(safety_levels, frame.prompt, frame.safety_level, frame.context).result

\* C14: of the calls of check_prompt that run concurrently on one
\* SafetyChecker, their steps interleaved in any way, each returns the
\* verdict it returns when it runs alone
C14_ConcurrentCallsAsAlone ==
    \A c \in DOMAIN frames :
        (frames[c].order = "code" /\ frames[c].pc = "done") =>
            frames[c].verdict = <<Alone(frames[c])>>

\* the second call ran from its start to a completed verdict while the
\* first, on another prompt, was between two of its analyzers
C14_Witness ==
    /\ Len(frames) = 2
    /\ frames[1].pc = "analyze"
    /\ frames[1].ran = <<"content", "bias">>
    /\ frames[2].pc = "done"
    /\ frames[2].ran = Analyzers
    /\ frames[2].verdict[1].risk_level # "unknown"
    /\ frames[2].verdict[1].detected_issues # frames[1].results["content"].issues
    /\ frames[1].prompt # frames[2].prompt

\* C15: a call whose four analyzers end in any order returns the verdict
\* of the call that awaits them one after the other
C15_AnalyzerOrderIrrelevant ==
    \A c \in DOMAIN frames :
        (frames[c].order = "any" /\ frames[c].pc = "done") =>
            frames[c].verdict = <<Alone(frames[c])>>

\* a call that completed with its analyzers ended in the reverse of the
\* order of the code, all four with findings
C15_Witness ==
    /\ Len(frames) = 1
    /\ frames[1].order = "any"
    /\ frames[1].pc = "done"
    /\ frames[1].ran = <<"toxicity", "ethical", "bias", "content">>
    /\ frames[1].verdict[1].risk_level \notin {"unknown", "low"}
    /\ frames[1].results["bias"].issues # <<>>
    /\ frames[1].results["ethical"].violations # <<>>

(***************************************************************************)
(* Properties of the attributes of the SafetyChecker                       *)
(***************************************************************************)
\* C16: no step of a call (the threshold lookup, an analyzer, the scoring
\* and the building of the verdict) changes the pattern tables, the bias
\* weights, the mitigation table or the configured thresholds: they keep the
\* value __init__ gave them
C16_TablesNeverWritten ==
    [][/\ tables' = tables
       /\ tables = Attributes
       /\ safety_levels' = safety_levels]_vars

\* two calls ran to their end and returned completed verdicts, both with
\* matches of the pattern tables, and the attributes are those of __init__
C16_Witness ==
    /\ Len(frames) = 2
    /\ \A c \in DOMAIN frames :
           /\ frames[c].pc = "done"
           /\ frames[c].ran = Analyzers
           /\ frames[c].verdict[1].risk_level # "unknown"
           /\ frames[c].results["content"].issues \o frames[c].results["ethical"].violations # <<>>
    /\ tables = Attributes
    /\ safety_levels = DefaultSafetyLevels

(***************************************************************************)
(* Properties of the errors of the analyzers                               *)
(***************************************************************************)
\* analyzer a has no way to complete on the arguments of the frame: the
\* prompt has no lower(), or _check_context_ethics gets a truthy context
\* without get()
IllTypedFor(a, frame) ==
    \/ frame.prompt.t # "str"
    \/ a = "ethical" /\ Truthy(frame.context) /\ frame.context.t # "dict"

\* the call of the frame left the try block while it ran its analyzers
LeftInAnalysis(frame) ==
    frame.pc = "done" /\ frame.threshold # None /\ Len(frame.ran) < Len(Analyzers)

\* C17, as stated: none of the four analyzers ever raises to check_prompt
C17_AnalyzersNeverRaise ==
    \A c \in DOMAIN frames :
        /\ \A k \in DOMAIN Analyzers : ~RunAnalyzer(Analyzers[k], frames[c]).raised
        /\ ~LeftInAnalysis(frames[c])

\* C17, amended: an analyzer raises to check_prompt exactly when the prompt
\* is no str or, for the ethical analyzer, a truthy context is no dict; no
\* analyzer contains the error, and check_prompt turns it into the
\* fail-closed verdict that carries the message
C17_AnalyzersRaiseOnIllTyped ==
    \A c \in DOMAIN frames :
        /\ \A k \in DOMAIN Analyzers :
               RunAnalyzer(Analyzers[k], frames[c]).raised
                   <=> IllTypedFor(Analyzers[k], frames[c])
        /\ LeftInAnalysis(frames[c]) <=>
               /\ frames[c].pc = "done"
               /\ frames[c].threshold # None
               /\ \E k \in DOMAIN Analyzers : IllTypedFor(Analyzers[k], frames[c])
        /\ LeftInAnalysis(frames[c]) =>
               \E k \in DOMAIN Analyzers :
                   /\ Analyzers[k] \notin DOMAIN frames[c].results
                   /\ RunAnalyzer(Analyzers[k], frames[c]).raised
                   /\ frames[c].verdict =
                          <<FailClosed(RunAnalyzer(Analyzers[k], frames[c]).err)>>

\* on a str prompt with the context "ctx" the ethical analyzer raised after
\* the three others had returned, and the call returned the fail-closed
\* verdict
C17_Witness ==
    /\ Len(frames) = 1
    /\ frames[1].pc = "done"
    /\ frames[1].prompt.t = "str"
    /\ frames[1].context.t = "str"
    /\ Len(frames[1].ran) = 3
    /\ "ethical" \notin DOMAIN frames[1].results
    /\ frames[1].verdict[1].reason =
           <<"Safety check error: ", <<"'", "str", "' object has no attribute 'get'">>>>

(***************************************************************************)
(* Properties of the analyzers                                             *)
(***************************************************************************)
\* the number of matches that the issues from the j-th on list for a
\* category: an issue is <<prefix, category, infix, matches>>
RECURSIVE MatchCount(_, _, _)
MatchCount(issues, category, j) ==
    IF j > Len(issues) THEN 0
    ELSE (IF issues[j][2] = category THEN Len(issues[j][4]) ELSE 0)
         + MatchCount(issues, category, j + 1)

\* score is min(1.0, n * per / 10) as binary64 arithmetic allows: within
\* 2^-50 of it, 0.0 for no match and 1.0 from 1.0 on
IsClampedProduct(score, n, per) ==
    /\ InUnit(score)
    /\ n = 0 => score = F0_0
    /\ n * per >= 10 => score = F1_0
    /\ n * per < 10 =>
           BCmp(BDist(BMul(Scaled(score), BFromInt(10)),
                      BShl(BFromInt(n * per), 120)),
                BShl(BFromInt(10), 70)) = -1

\* C18: the score of every harmful-content category is min(1.0, 0.2 * the
\* number of matches of its patterns in the lower-cased prompt), and the
\* overall content score is the greatest of the category scores, 0.0 when
\* nothing matches
C18_ContentScores ==
    \A i \in DOMAIN log :
        log[i].failed = "none" =>
            LET content == log[i].analyses.content
                scores  == content.content_scores
            IN  /\ DOMAIN scores = {harmful_patterns[c].name : c \in DOMAIN harmful_patterns}
                /\ \A n \in DOMAIN scores :
                       IsClampedProduct(scores[n], MatchCount(content.issues, n, 1), 2)
                /\ \E n \in DOMAIN scores : content.overall_content_score = scores[n]
                /\ \A n \in DOMAIN scores : FGe(content.overall_content_score, scores[n])
                /\ content.issues = <<>> => content.overall_content_score = F0_0

\* a check in which two categories matched, one more often than the other,
\* the higher score below 1.0 and from matches of two patterns: the overall
\* score is the higher one
C18_Witness ==
    /\ Len(log) = 1
    /\ log[1].failed = "none"
    /\ \E n, m \in DOMAIN log[1].analyses.content.content_scores :
           /\ FGt(log[1].analyses.content.content_scores[m], F0_0)
           /\ FGt(log[1].analyses.content.content_scores[n],
                  log[1].analyses.content.content_scores[m])
           /\ FLt(log[1].analyses.content.content_scores[n], F1_0)
           /\ log[1].analyses.content.overall_content_score
                  = log[1].analyses.content.content_scores[n]
           /\ \E j, k \in DOMAIN log[1].analyses.content.issues :
                  /\ j # k
                  /\ log[1].analyses.content.issues[j][2] = n
                  /\ log[1].analyses.content.issues[k][2] = n

\* re.search(pattern, s) finds a match; idx is Index(s)
PatternMatches(pat, s, idx) ==
    \E k \in DOMAIN idx.starts : MatchAt(s, idx, k, pat) # <<>>

\* for every harmful-content category, the patterns of it that match the
\* lower-cased text
MatchingPatterns(text) ==
    With(Lower(text), LAMBDA low :
    With(Index(low), LAMBDA idx :
        [c \in DOMAIN harmful_compiled |->
            {k \in DOMAIN harmful_compiled[c].patterns :
                PatternMatches(harmful_compiled[c].patterns[k], low, idx)}]))

\* the issues of a list that name the category
IssuesOf(issues, category) == {j \in DOMAIN issues : issues[j][2] = category}

\* for every harmful-content category, the number of issues the content
\* analyzer emitted for it in the i-th call of the log
IssueCounts(i) ==
    [c \in DOMAIN harmful_patterns |->
        Cardinality(IssuesOf(log[i].analyses.content.issues, harmful_patterns[c].name))]

\* C19, as stated: the content analyzer emits exactly one issue per
\* category that had any match and none for a category without
C19_OneIssuePerCategory ==
    \A i \in DOMAIN log :
        log[i].failed = "none" =>
            With(MatchingPatterns(log[i].prompt.s), LAMBDA matching :
                \A c \in DOMAIN harmful_patterns :
                    IssueCounts(i)[c] = IF matching[c] = {} THEN 0 ELSE 1)

\* C19, amended: the content analyzer emits one issue per pattern that had
\* any match, so a category has as many issues as it has matching patterns,
\* none when no pattern of it matched, and a score above 0.0 exactly when it
\* has an issue
C19_OneIssuePerMatchingPattern ==
    \A i \in DOMAIN log :
        log[i].failed = "none" =>
            /\ With(MatchingPatterns(log[i].prompt.s), LAMBDA matching :
                   \A c \in DOMAIN harmful_patterns :
                       /\ IssueCounts(i)[c] = Cardinality(matching[c])
                       /\ FGt(log[i].analyses.content.content_scores[harmful_patterns[c].name],
                              F0_0)
                              <=> matching[c] # {})
            /\ \A j \in DOMAIN log[i].analyses.content.issues :
                   /\ log[i].analyses.content.issues[j][4] # <<>>
                   /\ \E c \in DOMAIN harmful_patterns :
                          log[i].analyses.content.issues[j][2] = harmful_patterns[c].name

\* a check in which two patterns of one category matched and one pattern
\* of each of two others: four issues for three categories
C19_Witness ==
    /\ Len(log) = 1
    /\ log[1].failed = "none"
    /\ Len(log[1].analyses.content.issues) = 4
    /\ \E c \in DOMAIN harmful_patterns : IssueCounts(1)[c] = 2
    /\ Cardinality({c \in DOMAIN harmful_patterns : IssueCounts(1)[c] = 1}) = 2

\* 10 * 2^120 times the exact value of
\* 0.3*gender + 0.3*racial + 0.2*age + 0.2*socioeconomic
ExactBiasSum(scores) ==
    BAdd(BAdd(BMul(Scaled(scores["gender_bias"]), BFromInt(3)),
              BMul(Scaled(scores["racial_bias"]), BFromInt(3))),
         BAdd(BMul(Scaled(scores["age_bias"]), BFromInt(2)),
              BMul(Scaled(scores["socioeconomic_bias"]), BFromInt(2))))

\* C20: the score of every bias category is min(1.0, 0.3 * the number of
\* matches of its patterns), and the aggregate bias score is the weighted
\* sum 0.3*gender + 0.3*racial + 0.2*age + 0.2*socioeconomic of the clamped
\* scores, within [0, 1] and within 2^-50 of the exact sum as binary64
\* arithmetic allows; it is 1.0 exactly when the four scores are 1.0
C20_BiasScores ==
    \A i \in DOMAIN log :
        log[i].failed = "none" =>
            LET bias   == log[i].analyses.bias
                scores == bias.bias_scores
            IN  /\ DOMAIN scores = DOMAIN bias_weights
                /\ \A n \in DOMAIN scores :
                       IsClampedProduct(scores[n], MatchCount(bias.issues, n, 1), 3)
                /\ InUnit(bias.bias_score)
                /\ BCmp(BDist(BMul(Scaled(bias.bias_score), BFromInt(10)),
                               ExactBiasSum(scores)),
                        BShl(BFromInt(10), 70)) = -1
                /\ bias.bias_score = F1_0 <=> \A n \in DOMAIN scores : scores[n] = F1_0
                /\ bias.issues = <<>> => bias.bias_score = F0_0

\* a check with five matches in one bias category, clamped to 1.0, and none
\* in the others: the aggregate is the weight of the category, below the
\* greatest score
C20_Witness ==
    /\ Len(log) = 1
    /\ log[1].failed = "none"
    /\ \E n \in DOMAIN bias_weights :
           /\ log[1].analyses.bias.bias_scores[n] = F1_0
           /\ MatchCount(log[1].analyses.bias.issues, n, 1) = 5
           /\ log[1].analyses.bias.bias_score = bias_weights[n]
           /\ \A m \in DOMAIN bias_weights \ {n} :
                  log[1].analyses.bias.bias_scores[m] = F0_0

\* the violations that the claims on the context expect of
\* _check_context_ethics: the privacy one for the flag contains_personal_data
\* and a text holding "personal" or "private", the manipulation one for the
\* flag sensitive_context and a text holding "manipulate" or "influence"
ExpectedOfContext(text, context) ==
    IF context.t # "dict" THEN <<>>
    ELSE (IF /\ "contains_personal_data" \in DOMAIN context.d
             /\ context.d["contains_personal_data"]
             /\ \/ HasSubstring(Lower(text), <<"p", "e", "r", "s", "o", "n", "a", "l">>)
                \/ HasSubstring(Lower(text), <<"p", "r", "i", "v", "a", "t", "e">>)
          THEN <<"Potential privacy violation in context">> ELSE <<>>)
         \o
         (IF /\ "sensitive_context" \in DOMAIN context.d
             /\ context.d["sensitive_context"]
             /\ \/ HasSubstring(Lower(text), <<"m", "a", "n", "i", "p", "u", "l", "a", "t", "e">>)
                \/ HasSubstring(Lower(text), <<"i", "n", "f", "l", "u", "e", "n", "c", "e">>)
          THEN <<"Potential manipulation in sensitive context">> ELSE <<>>)

\* the violations of the i-th call of the log that its patterns gave: those
\* before the ones derived from the context
PatternViolations(i) ==
    SubSeq(log[i].analyses.ethical.violations, 1,
           Len(log[i].analyses.ethical.violations)
               - Len(ExpectedOfContext(log[i].prompt.s, log[i].context)))

\* C21: the score of every ethical principle is min(1.0, 0.4 * the number
\* of matches of its patterns), and the overall ethical score is the
\* greatest of the three, 0.0 when nothing matches
C21_EthicalScores ==
    \A i \in DOMAIN log :
        log[i].failed = "none" =>
            LET ethical == log[i].analyses.ethical
                scores  == ethical.ethical_scores
            IN  /\ DOMAIN scores = {"privacy", "manipulation", "discrimination"}
                /\ \A n \in DOMAIN scores :
                       IsClampedProduct(scores[n], MatchCount(PatternViolations(i), n, 1), 4)
                /\ \E n \in DOMAIN scores : ethical.overall_ethical_score = scores[n]
                /\ \A n \in DOMAIN scores : FGe(ethical.overall_ethical_score, scores[n])
                /\ PatternViolations(i) = <<>> => ethical.overall_ethical_score = F0_0

\* a check with two matches of the manipulation patterns and none of the
\* others, made with both context flags set: manipulation and the overall
\* score are 0.8, and the violation derived from the context adds nothing
C21_Witness ==
    /\ Len(log) = 1
    /\ log[1].failed = "none"
    /\ log[1].context = BothFlags
    /\ MatchCount(PatternViolations(1), "manipulation", 1) = 2
    /\ Len(log[1].analyses.ethical.violations) > Len(PatternViolations(1))
    /\ log[1].analyses.ethical.ethical_scores["manipulation"] = F0_8
    /\ log[1].analyses.ethical.ethical_scores["privacy"] = F0_0
    /\ log[1].analyses.ethical.overall_ethical_score = F0_8

(***************************************************************************)
(* Properties of the context                                               *)
(***************************************************************************)
\* C22: the ethical violations of a call are those of the call without
\* context followed by the privacy violation, exactly when the flag
\* contains_personal_data is set and the lower-cased text holds "personal"
\* or "private" as a substring, and by the manipulation violation, exactly
\* when sensitive_context is set and the text holds "manipulate" or
\* "influence"; no context, an empty one or unset flags add nothing
C22_ContextViolations ==
    \A i, j \in DOMAIN log :
        (log[i].failed = "none" /\ log[j].failed = "none" /\ log[j].context = None) =>
            /\ Len(log[i].analyses.ethical.violations)
                  = Len(log[j].analyses.ethical.violations)
                    + Len(ExpectedOfContext(log[i].prompt.s, log[i].context))
            /\ log[i].analyses.ethical.violations
                  = log[j].analyses.ethical.violations
                    \o ExpectedOfContext(log[i].prompt.s, log[i].context)
            /\ (\/ log[i].context = Dict(<<>>)
                \/ log[i].context.t = "dict" /\ \A k \in DOMAIN log[i].context.d : ~log[i].context.d[k])
                  => log[i].analyses.ethical.violations = log[j].analyses.ethical.violations

\* "personally influence them" checked without context, no violation, and
\* then with contains_personal_data set and sensitive_context unset: the
\* privacy violation alone is added, for "personal" inside "personally"
C22_Witness ==
    /\ Len(log) = 2
    /\ prompt = Str(Phrases[10])
    /\ log[2].context = None
    /\ log[2].analyses.ethical.violations = <<>>
    /\ log[1].context = Dict([k \in {"contains_personal_data", "sensitive_context"} |->
                                 k = "contains_personal_data"])
    /\ log[1].analyses.ethical.violations = <<"Potential privacy violation in context">>

(***************************************************************************)
(* Properties of the toxicity assessor and of the recommendations          *)
(***************************************************************************)
\* the places among the words of a text where the word w stands
PlacesOf(words, w) == {k \in DOMAIN words : words[k] = w}

\* the places among the words of a text where a toxic word stands
ToxicPlaces(words) == {k \in DOMAIN words : words[k] \in Range(toxic_words)}

\* the whole words of the lower-cased prompt of the i-th call of the log
WordsOf(i) == Index(Lower(log[i].prompt.s)).words

\* C23: the toxicity score is min(1.0, 0.1 * the number of whole-word
\* occurrences of the toxic words in the lower-cased text), within [0, 1]
\* and within 2^-50 of that value as binary64 arithmetic allows, 0.0 for no
\* occurrence; and the result lists one string per distinct toxic word that
\* occurred, with the number of its occurrences
C23_ToxicityScore ==
    \A i \in DOMAIN log :
        log[i].failed = "none" =>
            With(WordsOf(i), LAMBDA words :
            With(log[i].analyses.toxicity, LAMBDA toxicity :
                /\ InUnit(toxicity.toxicity_score)
                /\ ToxicPlaces(words) = {} <=> toxicity.toxicity_score = F0_0
                /\ BCmp(BDist(BMul(Scaled(toxicity.toxicity_score), BFromInt(10)),
                               BShl(BFromInt(MinOf(Cardinality(ToxicPlaces(words)), 10)), 120)),
                        BShl(BFromInt(10), 70)) = -1
                /\ Len(toxicity.toxic_instances)
                      = Cardinality({w \in Range(toxic_words) : PlacesOf(words, w) # {}})
                /\ \A j \in DOMAIN toxicity.toxic_instances :
                       /\ toxicity.toxic_instances[j][2] \in Range(toxic_words)
                       /\ toxicity.toxic_instances[j][4]
                              = Cardinality(PlacesOf(words, toxicity.toxic_instances[j][2]))
                       /\ toxicity.toxic_instances[j][4] > 0
                       /\ \A k \in DOMAIN toxicity.toxic_instances :
                              toxicity.toxic_instances[k][2] = toxicity.toxic_instances[j][2]
                                  => k = j))

\* a check of a text with fifteen occurrences of three toxic words, five
\* of each: three strings with the count 5 and the score 1.0
C23_Witness ==
    /\ Len(log) = 1
    /\ log[1].failed = "none"
    /\ Cardinality(ToxicPlaces(WordsOf(1))) = 15
    /\ Len(log[1].analyses.toxicity.toxic_instances) = 3
    /\ \A j \in 1..3 : log[1].analyses.toxicity.toxic_instances[j][4] = 5
    /\ log[1].analyses.toxicity.toxicity_score = F1_0

\* the bias categories in the order of the table
BiasTypes == <<"gender_bias", "racial_bias", "age_bias", "socioeconomic_bias">>

\* the recommendations C24 expects for the analyses of a completed check
ExpectedRecommendations(a) ==
    (IF FGt(a.content.overall_content_score, F0_5)
     THEN <<"Review content for potentially harmful language">> ELSE <<>>)
    \o [k \in 1..Len(SelectSeq(BiasTypes, LAMBDA n : FGt(a.bias.bias_scores[n], F0_3))) |->
           <<"Address ",
             SelectSeq(BiasTypes, LAMBDA n : FGt(a.bias.bias_scores[n], F0_3))[k],
             ": ",
             bias_mitigation[SelectSeq(BiasTypes, LAMBDA n : FGt(a.bias.bias_scores[n], F0_3))[k]]>>]
    \o (IF FGt(a.ethical.overall_ethical_score, F0_5)
        THEN <<"Review for ethical compliance">> ELSE <<>>)
    \o (IF FGt(a.toxicity.toxicity_score, F0_5)
        THEN <<"Reduce toxic language and tone">> ELSE <<>>)

\* C24: the recommendations of a completed check are, in this order, the
\* content review iff the overall content score is > 0.5, the mitigation of
\* each bias category whose score is > 0.3, the ethics review iff the
\* overall ethical score is > 0.5 and the tone reduction iff the toxicity
\* score is > 0.5, and nothing else; a score of exactly 0.3 or 0.5 gives
\* none
C24_Recommendations ==
    \A i \in DOMAIN log :
        log[i].failed = "none" =>
            /\ Len(log[i].result.recommendations)
                  = Len(ExpectedRecommendations(log[i].analyses))
            /\ log[i].result.recommendations = ExpectedRecommendations(log[i].analyses)
            /\ (\A n \in DOMAIN bias_weights :
                    FLe(log[i].analyses.bias.bias_scores[n], F0_3)
                /\ FLe(log[i].analyses.content.overall_content_score, F0_5)
                /\ FLe(log[i].analyses.ethical.overall_ethical_score, F0_5)
                /\ FLe(log[i].analyses.toxicity.toxicity_score, F0_5))
                  => log[i].result.recommendations = <<>>

\* a check with seven recommendations: the content review, the four bias
\* mitigations, the ethics review and the tone reduction
C24_Witness ==
    /\ Len(log) = 1
    /\ log[1].failed = "none"
    /\ Len(log[1].result.recommendations) = 7
    /\ log[1].result.recommendations[1] = "Review content for potentially harmful language"
    /\ log[1].result.recommendations[2][2] = "gender_bias"
    /\ log[1].result.recommendations[5][2] = "socioeconomic_bias"
    /\ log[1].result.recommendations[6] = "Review for ethical compliance"
    /\ log[1].result.recommendations[7] = "Reduce toxic language and tone"

\* C25: two calls with the same prompt and level that differ only in a
\* context that is None or a dict return the same safety_score, risk_level,
\* is_safe, bias_score, toxicity_score and recommendations: the context
\* changes the lists of violations only
C25_ContextChangesNoScore ==
    \A i, j \in DOMAIN log :
        (/\ log[i].safety_level = log[j].safety_level
         /\ log[i].context.t \in {"NoneType", "dict"}
         /\ log[j].context.t \in {"NoneType", "dict"}) =>
            /\ log[i].failed = "none"
            /\ log[i].result.safety_score = log[j].result.safety_score
            /\ log[i].result.risk_level = log[j].result.risk_level
            /\ log[i].result.is_safe = log[j].result.is_safe
            /\ log[i].result.bias_score = log[j].result.bias_score
            /\ log[i].result.toxicity_score = log[j].result.toxicity_score
            /\ Len(log[i].result.recommendations) = Len(log[j].result.recommendations)
            /\ log[i].result.recommendations = log[j].result.recommendations
            /\ log[i].analyses.ethical.ethical_scores = log[j].analyses.ethical.ethical_scores

\* a prompt checked at "standard" without context and then with both flags
\* set: two violations more in both lists, the same score below 1.0 and
\* the same verdict otherwise
C25_Witness ==
    /\ Len(log) = 2
    /\ log[1].safety_level = Level("standard")
    /\ log[2].safety_level = Level("standard")
    /\ log[2].context = None
    /\ log[1].context = BothFlags
    /\ Len(log[1].result.ethical_violations) = Len(log[2].result.ethical_violations) + 2
    /\ Len(log[1].result.detected_issues) = Len(log[2].result.detected_issues) + 2
    /\ log[1].result.safety_score = log[2].result.safety_score
    /\ FLt(log[1].result.safety_score, F1_0)
    /\ log[1].result.is_safe = log[2].result.is_safe

(***************************************************************************)
(* Properties of the fields of the verdict                                 *)
(***************************************************************************)
\* C26: in the verdict of a completed check detected_issues is the content
\* issues, then the bias issues, then the ethical violations with those
\* derived from the context, and nothing more; ethical_violations is that
\* same ethical list; the lists leave no place for a string of the toxicity
\* analyzer, of which the verdict holds the score only
C26_IssuesAreConcatenated ==
    \A i \in DOMAIN log :
        log[i].failed = "none" =>
            LET r == log[i].result
                a == log[i].analyses
            IN  /\ Len(r.detected_issues)
                      = Len(a.content.issues) + Len(a.bias.issues) + Len(a.ethical.violations)
                /\ SubSeq(r.detected_issues, 1, Len(a.content.issues)) = a.content.issues
                /\ SubSeq(r.detected_issues, Len(a.content.issues) + 1,
                          Len(a.content.issues) + Len(a.bias.issues)) = a.bias.issues
                /\ SubSeq(r.detected_issues,
                          Len(a.content.issues) + Len(a.bias.issues) + 1,
                          Len(r.detected_issues)) = r.ethical_violations
                /\ r.ethical_violations = a.ethical.violations
                /\ Len(r.recommendations) = Len(ExpectedRecommendations(a))
                /\ r.toxicity_score = a.toxicity.toxicity_score

\* a check with both context flags set that found content issues, bias
\* issues, a violation of a pattern and one of the context, and toxic
\* words: the violations close detected_issues
C26_Witness ==
    /\ Len(log) = 1
    /\ log[1].failed = "none"
    /\ log[1].context = BothFlags
    /\ log[1].analyses.content.issues # <<>>
    /\ log[1].analyses.bias.issues # <<>>
    /\ Len(log[1].result.ethical_violations) = 2
    /\ log[1].result.ethical_violations[1][2] = "manipulation"
    /\ log[1].result.ethical_violations[2] = "Potential manipulation in sensitive context"
    /\ log[1].result.detected_issues[Len(log[1].result.detected_issues)]
          = "Potential manipulation in sensitive context"
    /\ log[1].analyses.toxicity.toxic_instances # <<>>

\* x is None, for an x of any type
IsNone(x) == ToString(x) = ToString(None)

\* C27: in every verdict check_prompt returns, reason is None if and only
\* if is_safe is true: a completed check below the threshold carries the
\* reason "Safety threshold not met", a fail-closed verdict a reason that
\* starts with "Safety check error: ", and a safe verdict none
C27_ReasonIffUnsafe ==
    \A i \in DOMAIN log :
        /\ IsNone(log[i].result.reason) <=> log[i].result.is_safe
        /\ (~IsNone(log[i].result.reason) /\ log[i].failed = "none") =>
               log[i].result.reason = <<"Safety threshold not met">>
        /\ (~IsNone(log[i].result.reason) /\ log[i].failed # "none") =>
               /\ Len(log[i].result.reason) = 2
               /\ log[i].result.reason[1] = "Safety check error: "
        /\ log[i].failed # "none" => ~log[i].result.is_safe

\* a completed check at "standard" whose score is below 0.7: not safe,
\* with the reason "Safety threshold not met"
C27_Witness ==
    /\ Len(log) = 1
    /\ log[1].failed = "none"
    /\ log[1].safety_level = Level("standard")
    /\ safety_levels = DefaultSafetyLevels
    /\ FLt(log[1].result.safety_score, F0_7)
    /\ ~log[1].result.is_safe
    /\ ~IsNone(log[1].result.reason)
    /\ log[1].result.reason = <<"Safety threshold not met">>

(***************************************************************************)
(* Properties of a single analyzer's findings                              *)
(***************************************************************************)
\* the scores among the four of a completed check that are not 0.0
NonZeroScores(a) ==
    {n \in {"content", "bias", "ethical", "toxicity"} :
        CASE n = "content"  -> a.content.overall_content_score # F0_0
          [] n = "bias"     -> a.bias.bias_score # F0_0
          [] n = "ethical"  -> a.ethical.overall_ethical_score # F0_0
          [] n = "toxicity" -> a.toxicity.toxicity_score # F0_0}

\* C28: a completed check in which at most one of the overall content
\* score, the bias score, the overall ethical score and the toxicity score
\* is not 0.0 has a safety_score >= 0.7, however many matches there are,
\* and is safe at the default levels "standard" and "permissive"; a check
\* that is unsafe at "standard" has two scores or more that are not 0.0
C28_OneAnalyzerStaysSafe ==
    \A i \in DOMAIN log :
        log[i].failed = "none" =>
            /\ Cardinality(NonZeroScores(log[i].analyses)) <= 1 =>
                   /\ FGe(log[i].result.safety_score, F0_7)
                   /\ log[i].safety_level \in {Level("standard"), Level("permissive")}
                          => log[i].result.is_safe
            /\ (log[i].safety_level = Level("standard") /\ ~log[i].result.is_safe)
                   => Cardinality(NonZeroScores(log[i].analyses)) >= 2

\* a check at "standard" of a text with five matches of a harmful-content
\* pattern and no other finding: the content score is 1.0, the safety_score
\* exactly 0.7, and the verdict safe
C28_Witness ==
    /\ Len(log) = 1
    /\ log[1].failed = "none"
    /\ log[1].safety_level = Level("standard")
    /\ NonZeroScores(log[1].analyses) = {"content"}
    /\ log[1].analyses.content.overall_content_score = F1_0
    /\ log[1].result.safety_score = F0_7
    /\ log[1].result.is_safe

(***************************************************************************)
(* Properties of the construction of MetaPromptEngine                      *)
(***************************************************************************)
\* the adapters of the three providers, under the names the engine keeps
\* them by
ProviderAdapters == {"gemini", "gemma", "openai", "anthropic"}

\* C29: MetaPromptEngine is constructed only if the key of every provider
\* is set: when the key of any one provider is missing the construction
\* fails, process exits with status 1 before the prompt is validated or
\* any adapter is invoked, whichever model was asked for; a constructed
\* engine holds an adapter for each provider
C29_EngineNeedsEveryProvider ==
    /\ NewEngine(env).raised <=> ~(EnvKeys \subseteq env)
    /\ (p_pc # "start" /\ ~(EnvKeys \subseteq env))
          => /\ p_pc = "exited"
             /\ exit_code = <<1>>
             /\ validated = <<>>
             /\ invoked = <<>>
    /\ p_pc \in {"engine", "checked", "processed"}
          => /\ EnvKeys \subseteq env
             /\ ~NewEngine(env).raised
             /\ NewEngine(env).adapters = ProviderAdapters
    /\ invoked # <<>> => EnvKeys \subseteq env

\* process was asked for a Gemini model with the Gemini key set and the
\* Anthropic key alone missing: the construction failed with the error of
\* the Anthropic adapter and process exited with no adapter invoked
C29_Witness ==
    /\ env = EnvKeys \ {"ANTHROPIC_API_KEY"}
    /\ ~GetAdapter(model).raised
    /\ GetAdapter(model).adapter = "gemini"
    /\ NewEngine(env).raised
    /\ NewEngine(env).err = <<"ANTHROPIC_API_KEY not set in environment or provided.">>
    /\ p_pc = "exited"
    /\ exit_code = <<1>>
    /\ invoked = <<>>

=============================================================================
